---- MODULE Spec2Model ----
(***************************************************************************)
(* A model of go-rest-api: the in-memory book repository                   *)
(* (internal/books) and the HTTP layer of cmd/server that calls it.        *)
(*                                                                         *)
(* Strings that the code inspects byte by byte (ids, paths) are sequences  *)
(* of one-character strings.  Free text (title, author, isbn) is a         *)
(* sequence of chunks: a chunk is either one white-space character or a    *)
(* run of text without leading or trailing white space.                    *)
(***************************************************************************)
EXTENDS Integers, Sequences, FiniteSets, TLC

VARIABLES
    books,        \* MemoryRepository.books : map id -> Book
    nextID,       \* MemoryRepository.nextID
    mu,           \* MemoryRepository.mu : [w |-> holder of the write lock or 0, readers |-> holders of the read lock,
                  \*                        pending |-> the writer that waits for the readers to leave, or 0]
    pc,           \* per goroutine: the statement it is about to execute
    op,           \* per goroutine: the repository call in progress (arguments, locals, results)
    issued,       \* history: per goroutine, the ids Create returned to it, in order
    committed,    \* history: the map as the last completed write (or construction) left it
    everPresent,  \* history: every id that was ever a key of the map
    oplog,        \* history: the construction and then the finished calls of the sequential caller, with their results
    req,          \* per goroutine: the HTTP request it serves
    ctx,          \* per goroutine: the request's context: whether it carries the deadline, and ctx.Err()
    rr,           \* per goroutine: the responseRecorder of loggingMiddleware
    resp,         \* per goroutine: what has been written to the client's http.ResponseWriter
    calls,        \* history: per goroutine, the decorators, handlers and repository methods invoked
                  \* for the request, in order
    stack,        \* per goroutine: the decorators entered that still have work to do on return
    obs,          \* history: per goroutine, ctx.Err() at the repository call, at contextDone, at
                  \* the response write and at a handler's own error answer, and the repository
                  \* as it was when the request arrived
    srv           \* the http.Server and the main goroutine inside shutdown(srv), with the
                  \* calls of Shutdown and Close made so far

vars == <<books, nextID, mu, pc, op, issued, committed, everPresent, oplog,
          req, ctx, rr, resp, calls, stack, obs, srv>>

-----------------------------------------------------------------------------
(* Bounds of the model. *)

\* Largest value of nextID at which a further Create is still issued.
MaxNextID == 10
\* Number of goroutines calling the repository concurrently (SpecConc).
NumClients == 2
\* Largest value of nextID at which a concurrent caller still issues a Create.
MaxConcID == 6
\* Number of repository calls the sequential caller makes (SpecRepo).
MaxOps == 4
\* Longest path handed to extractID directly (SpecPath).
MaxPathLen == 4
\* The seconds shutdown gives srv.Shutdown to drain the requests in flight.
ShutdownTimeout == 5
\* Largest value of nextID at which a POST is still accepted while requests
\* are served concurrently (SpecServe).
MaxServeID == 5

-----------------------------------------------------------------------------
(* Strings. *)

Digits == <<"0", "1", "2", "3", "4", "5", "6", "7", "8", "9">>

IsDigit(c) == \E i \in 1..10 : Digits[i] = c

DigitVal(c) == (CHOOSE i \in 1..10 : Digits[i] = c) - 1

\* The bytes that occur in the model's strings, with their ASCII codes.
Code(c) ==
    CASE c = "+" -> 43
      [] c = "-" -> 45
      [] c = "/" -> 47
      [] IsDigit(c) -> 48 + DigitVal(c)
      [] c = "a" -> 97
      [] c = "x" -> 120

\* Go's < on strings: byte-wise lexicographic order.
RECURSIVE StrLess(_, _)
StrLess(a, b) ==
    IF b = <<>> THEN FALSE
    ELSE IF a = <<>> THEN TRUE
    ELSE IF Code(Head(a)) # Code(Head(b)) THEN Code(Head(a)) < Code(Head(b))
    ELSE StrLess(Tail(a), Tail(b))

RECURSIVE ItoaNat(_)
ItoaNat(n) ==
    IF n < 10 THEN <<Digits[n + 1]>>
    ELSE ItoaNat(n \div 10) \o <<Digits[(n % 10) + 1]>>

\* strconv.Itoa
Itoa(n) == IF n < 0 THEN <<"-">> \o ItoaNat(-n) ELSE ItoaNat(n)

RECURSIVE DigitsVal(_, _)
DigitsVal(s, acc) ==
    IF s = <<>> THEN acc ELSE DigitsVal(Tail(s), 10 * acc + DigitVal(Head(s)))

\* strconv.Atoi: an optional sign followed by one or more decimal digits.
\* err = FALSE stands for a nil error.
Atoi(s) ==
    LET signed == s # <<>> /\ Head(s) \in {"+", "-"}
        body   == IF signed THEN Tail(s) ELSE s
        ok     == body # <<>> /\ \A i \in 1..Len(body) : IsDigit(body[i])
    IN  IF ~ok THEN [err |-> TRUE, val |-> 0]
        ELSE [err |-> FALSE,
              val |-> IF signed /\ Head(s) = "-" THEN -DigitsVal(body, 0)
                      ELSE DigitsVal(body, 0)]

-----------------------------------------------------------------------------
(* The entity. *)

Book(id, title, author, isbn, year) ==
    [ID |-> id, Title |-> title, Author |-> author, ISBN |-> isbn, PublishedYear |-> year]

\* Book{} : the zero value.
ZeroBook == Book(<<>>, <<>>, <<>>, <<>>, 0)

SeedData ==
    << Book(<<"1">>, <<"The Go Programming Language">>, <<"Alan A. A. Donovan">>,
            <<"9780134190440">>, 2015),
       Book(<<"2">>, <<"Introducing Go">>, <<"Caleb Doxsey">>, <<"9781491941959">>, 2016),
       Book(<<"3">>, <<"Concurrency in Go">>, <<"Katherine Cox-Buday">>,
            <<"9781491941195">>, 2017),
       Book(<<"4">>, <<"Go in Practice">>, <<"Matt Butcher">>, <<"9781633430075">>, 2016) >>

-----------------------------------------------------------------------------
(* The repository: construction and the bodies of its methods. *)

\* A Go map with m[k] = v added or replaced.
MapPut(m, k, v) == [x \in DOMAIN m \cup {k} |-> IF x = k THEN v ELSE m[x]]

MapDeleteNothing(m, k) == m

\* delete(m, k)
MapDelete(m, k) == [x \in DOMAIN m \ {k} |-> m[x]]

EmptyMap == [x \in {} |-> ZeroBook]

AfterSeedOffByOne(n, book) ==
    LET a == Atoi(book.ID) IN IF ~a.err /\ a.val >= n THEN a.val ELSE n

\* One iteration of the seeding loop on the counter: nextID after `book`.
AfterSeed(n, book) ==
    LET a == Atoi(book.ID) IN IF ~a.err /\ a.val >= n THEN a.val + 1 ELSE n

RECURSIVE SeedLoop(_, _, _)
SeedLoop(seed, m, n) ==
    IF seed = <<>> THEN [books |-> m, nextID |-> n]
    ELSE SeedLoop(Tail(seed), MapPut(m, Head(seed).ID, Head(seed)), AfterSeed(n, Head(seed)))

NewMemoryRepository(seed) == SeedLoop(seed, EmptyMap, 1)

\* The comparison List hands to sort.Slice.
ListLess(a, b) == StrLess(a.ID, b.ID)

\* sort.Slice over a set of books with pairwise different ids: the one
\* arrangement in which no element is less than an earlier one.
SortSlice(S) ==
    LET sorted[T \in SUBSET S] ==
            IF T = {} THEN <<>>
            ELSE LET first == CHOOSE x \in T : \A y \in T \ {x} : ~ListLess(y, x)
                 IN  <<first>> \o sorted[T \ {first}]
    IN  sorted[S]

\* The body of List: the values of the map, sorted.
ListResult(m) == SortSlice({m[k] : k \in DOMAIN m})

\* The conditions under which sync.RWMutex grants Lock and RLock.  A writer
\* that finds readers inside announces itself and waits for them to leave;
\* until it has held and released the lock no new reader is let in.
CanLockNoExclusion(m) == m.readers = {}

CanLockIgnoringReaders(m) == m.w = 0

CanLock(m) == m.w = 0 /\ m.readers = {} /\ m.pending = 0

CanRLockDuringWrite(m) == TRUE

CanRLock(m) == m.w = 0 /\ m.pending = 0

-----------------------------------------------------------------------------
(* The state of a request, before any has arrived. *)

NoBody == [kind |-> "empty", Title |-> <<>>, Author |-> <<>>, ISBN |-> <<>>, PublishedYear |-> 0]

NoReq == [method |-> "", path |-> <<>>, contentType |-> <<>>, body |-> NoBody]

\* context.Background(): no deadline, never done.
Background == [deadline |-> FALSE, err |-> "nil"]

\* &responseRecorder{ResponseWriter: w}; logged and loggedSize are the status
\* and the byte count loggingMiddleware printed.
NoRecorder == [status |-> 0, size |-> 0, logged |-> 0, loggedSize |-> 0]

NoPayload == [kind |-> "none", msg |-> "", book |-> ZeroBook, list |-> <<>>]

\* A ResponseWriter nothing was written to.
NoResp == [status |-> 0, headerCalls |-> 0, body |-> <<>>, bytes |-> 0,
           contentType |-> "", location |-> <<>>, cors |-> FALSE]

\* srv as main starts it: accepting, the main goroutine waiting in shutdown
\* for a signal, Shutdown and Close not called.
NoServer == [phase |-> "waitSignal", signal |-> "none", accepting |-> TRUE,
             shutdownCalls |-> 0, drain |-> 0, shutdownErr |-> "none", closeCalls |-> 0]

NoObs == [atCall |-> "none", atCheck |-> "none", atWrite |-> "none", atAnswer |-> "none",
          books |-> EmptyMap, nextID |-> 0]

-----------------------------------------------------------------------------
(* The state of a goroutine's repository call. *)

NoOp == [name |-> "none", id |-> <<>>, book |-> ZeroBook, ok |-> FALSE, list |-> <<>>,
         err |-> "nil"]

Clients == DOMAIN pc

ReadCS  == {"ListBody", "GetBody", "RUnlock"}
WriteCS == {"CreateAssignID", "CreateIncrement", "CreateStore",
            "UpdateCheck", "UpdateStore", "DeleteCheck", "DeleteRemove", "Unlock"}

InRead(r)  == pc[r] \in ReadCS
InWrite(r) == pc[r] \in WriteCS

Hist == <<issued, committed, everPresent, oplog>>

Http == <<req, ctx, rr, resp, calls, stack, obs>>

ReturnedErrGetFails(name) == IF name = "Get" THEN "error" ELSE "nil"

\* The error a method of MemoryRepository returns: every return statement of
\* List, Get, Create, Update and Delete ends in nil.
ReturnedErr(name) == "nil"

\* r.mu.RLock() in List and Get
RLock(r) ==
    /\ pc[r] \in {"List", "Get"}
    /\ CanRLock(mu)
    /\ mu' = [mu EXCEPT !.readers = @ \cup {r}]
    /\ pc' = [pc EXCEPT ![r] = IF pc[r] = "List" THEN "ListBody" ELSE "GetBody"]
    /\ UNCHANGED <<books, nextID, op, Hist, srv, Http>>

\* List: collect the values of the map and sort them.
ListBody(r) ==
    /\ pc[r] = "ListBody"
    /\ op' = [op EXCEPT ![r].list = ListResult(books)]
    /\ pc' = [pc EXCEPT ![r] = "RUnlock"]
    /\ UNCHANGED <<books, nextID, mu, Hist, srv, Http>>

\* Get: book, ok := r.books[id]
GetBody(r) ==
    /\ pc[r] = "GetBody"
    /\ op' = [op EXCEPT ![r].ok = op[r].id \in DOMAIN books,
                        ![r].book = IF op[r].id \in DOMAIN books THEN books[op[r].id]
                                    ELSE ZeroBook]
    /\ pc' = [pc EXCEPT ![r] = "RUnlock"]
    /\ UNCHANGED <<books, nextID, mu, Hist, srv, Http>>

\* defer r.mu.RUnlock()
RUnlock(r) ==
    /\ pc[r] = "RUnlock"
    /\ mu' = [mu EXCEPT !.readers = @ \ {r}]
    /\ op' = [op EXCEPT ![r].err = ReturnedErr(op[r].name)]
    /\ pc' = [pc EXCEPT ![r] = "returned"]
    /\ UNCHANGED <<books, nextID, Hist, srv, Http>>

\* r.mu.Lock() in Create, Update and Delete
Lock(r) ==
    /\ pc[r] \in {"Create", "Update", "Delete"}
    /\ CanLock(mu)
    /\ mu' = [mu EXCEPT !.w = r]
    /\ pc' = [pc EXCEPT ![r] = CASE pc[r] = "Create" -> "CreateAssignID"
                                 [] pc[r] = "Update" -> "UpdateCheck"
                                 [] pc[r] = "Delete" -> "DeleteCheck"]
    /\ UNCHANGED <<books, nextID, op, Hist, srv, Http>>

\* r.mu.Lock() while List or Get are inside: the writer announces itself
\* and blocks.
LockPending(r) ==
    /\ pc[r] \in {"Create", "Update", "Delete"}
    /\ mu.w = 0 /\ mu.pending = 0 /\ mu.readers # {}
    /\ mu' = [mu EXCEPT !.pending = r]
    /\ pc' = [pc EXCEPT ![r] = "LockWait"]
    /\ UNCHANGED <<books, nextID, op, Hist, srv, Http>>

LockAcquireNeverWoken(r) ==
    /\ pc[r] = "LockWait"
    /\ FALSE
    /\ UNCHANGED vars

\* r.mu.Lock() returns to the blocked writer once the last reader has left.
LockAcquire(r) ==
    /\ pc[r] = "LockWait"
    /\ mu.pending = r /\ mu.readers = {}
    /\ mu' = [mu EXCEPT !.w = r, !.pending = 0]
    /\ pc' = [pc EXCEPT ![r] = CASE op[r].name = "Create" -> "CreateAssignID"
                                 [] op[r].name = "Update" -> "UpdateCheck"
                                 [] op[r].name = "Delete" -> "DeleteCheck"]
    /\ UNCHANGED <<books, nextID, op, Hist, srv, Http>>

\* Create: book.ID = strconv.Itoa(r.nextID)
CreateAssignID(r) ==
    /\ pc[r] = "CreateAssignID"
    /\ op' = [op EXCEPT ![r].book.ID = Itoa(nextID)]
    /\ pc' = [pc EXCEPT ![r] = "CreateIncrement"]
    /\ UNCHANGED <<books, nextID, mu, Hist, srv, Http>>

IncrementForgotten(n) == n

\* r.nextID++
Increment(n) == n + 1

\* Create: r.nextID++
CreateIncrement(r) ==
    /\ pc[r] = "CreateIncrement"
    /\ nextID' = Increment(nextID)
    /\ pc' = [pc EXCEPT ![r] = "CreateStore"]
    /\ UNCHANGED <<books, mu, op, Hist, srv, Http>>

CreateStoreDropped(r) ==
    /\ pc[r] = "CreateStore"
    /\ pc' = [pc EXCEPT ![r] = "Unlock"]
    /\ UNCHANGED <<books, nextID, mu, op, Hist, srv, Http>>

\* Create: r.books[book.ID] = book
CreateStore(r) ==
    /\ pc[r] = "CreateStore"
    /\ books' = MapPut(books, op[r].book.ID, op[r].book)
    /\ everPresent' = everPresent \cup {op[r].book.ID}
    /\ pc' = [pc EXCEPT ![r] = "Unlock"]
    /\ UNCHANGED <<nextID, mu, op, issued, committed, oplog, Http, srv>>

UpdateCheckUpsert(r) ==
    /\ pc[r] = "UpdateCheck"
    /\ pc' = [pc EXCEPT ![r] = "UpdateStore"]
    /\ UNCHANGED <<books, nextID, mu, op, Hist, srv, Http>>

\* Update: if _, ok := r.books[id]; !ok { return Book{}, false, nil }
UpdateCheck(r) ==
    /\ pc[r] = "UpdateCheck"
    /\ IF op[r].id \in DOMAIN books
       THEN /\ pc' = [pc EXCEPT ![r] = "UpdateStore"]
            /\ op' = op
       ELSE /\ pc' = [pc EXCEPT ![r] = "Unlock"]
            /\ op' = [op EXCEPT ![r].book = ZeroBook, ![r].ok = FALSE]
    /\ UNCHANGED <<books, nextID, mu, Hist, srv, Http>>

UpdateStoreUnderSuppliedID(r) ==
    /\ pc[r] = "UpdateStore"
    /\ books' = MapPut(books, op[r].book.ID, op[r].book)
    /\ op' = [op EXCEPT ![r].ok = TRUE]
    /\ pc' = [pc EXCEPT ![r] = "Unlock"]
    /\ UNCHANGED <<nextID, mu, Hist, srv, Http>>

UpdateStoreKeepingSuppliedID(r) ==
    /\ pc[r] = "UpdateStore"
    /\ books' = MapPut(books, op[r].id, op[r].book)
    /\ op' = [op EXCEPT ![r].ok = TRUE]
    /\ pc' = [pc EXCEPT ![r] = "Unlock"]
    /\ UNCHANGED <<nextID, mu, Hist, srv, Http>>

\* Update: book.ID = id; r.books[id] = book; return book, true, nil
UpdateStore(r) ==
    /\ pc[r] = "UpdateStore"
    /\ books' = MapPut(books, op[r].id, [op[r].book EXCEPT !.ID = op[r].id])
    /\ op' = [op EXCEPT ![r].book.ID = op[r].id, ![r].ok = TRUE]
    /\ pc' = [pc EXCEPT ![r] = "Unlock"]
    /\ UNCHANGED <<nextID, mu, Hist, srv, Http>>

DeleteCheckAlwaysFound(r) ==
    /\ pc[r] = "DeleteCheck"
    /\ pc' = [pc EXCEPT ![r] = "DeleteRemove"]
    /\ op' = [op EXCEPT ![r].ok = FALSE]
    /\ UNCHANGED <<books, nextID, mu, Hist, srv, Http>>

\* Delete: if _, ok := r.books[id]; !ok { return false, nil }
DeleteCheck(r) ==
    /\ pc[r] = "DeleteCheck"
    /\ pc' = [pc EXCEPT ![r] = IF op[r].id \in DOMAIN books THEN "DeleteRemove" ELSE "Unlock"]
    /\ op' = [op EXCEPT ![r].ok = FALSE]
    /\ UNCHANGED <<books, nextID, mu, Hist, srv, Http>>

\* Delete: delete(r.books, id); return true, nil
DeleteRemove(r) ==
    /\ pc[r] = "DeleteRemove"
    /\ books' = MapDelete(books, op[r].id)
    /\ op' = [op EXCEPT ![r].ok = TRUE]
    /\ pc' = [pc EXCEPT ![r] = "Unlock"]
    /\ UNCHANGED <<nextID, mu, Hist, srv, Http>>

\* defer r.mu.Unlock(): the write is complete and the method returns.
Unlock(r) ==
    /\ pc[r] = "Unlock"
    /\ mu' = [mu EXCEPT !.w = 0]
    /\ committed' = books
    /\ issued' = IF op[r].name = "Create"
                 THEN [issued EXCEPT ![r] = Append(@, op[r].book.ID)]
                 ELSE issued
    /\ op' = [op EXCEPT ![r].err = ReturnedErr(op[r].name)]
    /\ pc' = [pc EXCEPT ![r] = "returned"]
    /\ UNCHANGED <<books, nextID, everPresent, oplog, Http, srv>>

\* Every statement of the repository.
RepoStep ==
    \/ \E r \in Clients : RLock(r)
    \/ \E r \in Clients : ListBody(r)
    \/ \E r \in Clients : GetBody(r)
    \/ \E r \in Clients : RUnlock(r)
    \/ \E r \in Clients : Lock(r)
    \/ \E r \in Clients : CreateAssignID(r)
    \/ \E r \in Clients : CreateIncrement(r)
    \/ \E r \in Clients : CreateStore(r)
    \/ \E r \in Clients : UpdateCheck(r)
    \/ \E r \in Clients : UpdateStore(r)
    \/ \E r \in Clients : DeleteCheck(r)
    \/ \E r \in Clients : DeleteRemove(r)
    \/ \E r \in Clients : Unlock(r)

\* Lock blocking on readers: only where several goroutines call at once.
LockStep ==
    \/ \E r \in Clients : LockPending(r)
    \/ \E r \in Clients : LockAcquire(r)

-----------------------------------------------------------------------------
(* Callers of the repository interface. *)

\* A draft as createBook and updateBook hand it to the store: no id.
Draft(title) == Book(<<>>, <<title>>, <<"Jane Doe">>, <<"9780000000000">>, 2024)

Drafts == {Draft("Go Workshop")}

\* The ids callers ask for: a seeded one, one a Create assigns, an absent one.
CallIDs == {<<"2">>, <<"5">>, <<"9", "9">>}

\* The id carried by the book a caller hands to Update(id, book): that of
\* another book, none, the addressed one.
SuppliedID(i) ==
    CASE i = <<"2">> -> <<"7">>
      [] i = <<"5">> -> <<>>
      [] OTHER -> i

Calls ==
    {[NoOp EXCEPT !.name = "List"]}
    \cup {[NoOp EXCEPT !.name = "Get", !.id = i] : i \in CallIDs}
    \cup {[NoOp EXCEPT !.name = "Create", !.book = d] : d \in Drafts}
    \cup {[NoOp EXCEPT !.name = "Update", !.id = i, !.book = [d EXCEPT !.ID = SuppliedID(i)]] :
             i \in CallIDs, d \in Drafts}
    \cup {[NoOp EXCEPT !.name = "Delete", !.id = i] : i \in CallIDs}

\* The calls concurrent goroutines make: every method, on the id the first
\* Create assigns.
ConcCalls == {c \in Calls : c.id \in {<<>>, <<"5">>}}

PendingCreates == Cardinality({r \in Clients : op[r].name = "Create" /\ pc[r] # "returned"})

\* A goroutine enters a method of books.Repository.
Call(r, c) ==
    /\ pc[r] = "idle"
    /\ op' = [op EXCEPT ![r] = c]
    /\ pc' = [pc EXCEPT ![r] = c.name]
    /\ UNCHANGED <<books, nextID, mu, Hist, srv, Http>>

\* The method has returned to its caller.
Return(r) ==
    /\ pc[r] = "returned"
    /\ pc' = [pc EXCEPT ![r] = "idle"]
    /\ op' = [op EXCEPT ![r] = NoOp]
    /\ UNCHANGED <<books, nextID, mu, Hist, srv, Http>>

RepoInit(seed, clients) ==
    /\ books = NewMemoryRepository(seed).books
    /\ nextID = NewMemoryRepository(seed).nextID
    /\ mu = [w |-> 0, readers |-> {}, pending |-> 0]
    /\ pc = [r \in clients |-> "idle"]
    /\ op = [r \in clients |-> NoOp]
    /\ issued = [r \in clients |-> <<>>]
    /\ committed = NewMemoryRepository(seed).books
    /\ everPresent = DOMAIN NewMemoryRepository(seed).books
    /\ oplog = <<[NoOp EXCEPT !.name = "NewMemoryRepository", !.list = seed]>>
    /\ req = [r \in clients |-> NoReq]
    /\ ctx = [r \in clients |-> Background]
    /\ rr = [r \in clients |-> NoRecorder]
    /\ resp = [r \in clients |-> NoResp]
    /\ calls = [r \in clients |-> <<>>]
    /\ stack = [r \in clients |-> <<>>]
    /\ obs = [r \in clients |-> NoObs]
    /\ srv = NoServer

\* The repository of main, called by NumClients goroutines at once.
InitConc == RepoInit(SeedData, 1..NumClients)

ConcCall ==
    \E r \in Clients : \E c \in ConcCalls :
        /\ c.name = "Create" => nextID + PendingCreates <= MaxConcID
        /\ Call(r, c)

NextConc ==
    \/ ConcCall
    \/ RepoStep
    \/ LockStep
    \/ \E r \in Clients : Return(r)

SpecConc == InitConc /\ [][NextConc]_vars

-----------------------------------------------------------------------------
(* One caller, calling the repository MaxOps times from any of a few seeds. *)

SmallBook(id) == Book(id, <<"t">>, <<"a">>, <<>>, 2000)

\* Seeds handed to NewMemoryRepository: that of main, none, ids out of order
\* with a gap and a key that is no number, signed and zero-padded numbers.
Seeds ==
    { SeedData,
      <<>>,
      <<SmallBook(<<"7">>), SmallBook(<<"x">>), SmallBook(<<"2">>)>>,
      <<SmallBook(<<"-", "3">>), SmallBook(<<"+", "5">>), SmallBook(<<"0", "2">>)>> }

InitRepo == \E seed \in Seeds : RepoInit(seed, {1})

\* The method has returned to the sequential caller, which notes the outcome.
ReturnLogged(r) ==
    /\ pc[r] = "returned"
    /\ pc' = [pc EXCEPT ![r] = "idle"]
    /\ op' = [op EXCEPT ![r] = NoOp]
    /\ oplog' = Append(oplog, op[r])
    /\ UNCHANGED <<books, nextID, mu, issued, committed, everPresent, Http, srv>>

SeqCall ==
    \E r \in Clients : \E c \in Calls :
        /\ Len(oplog) <= MaxOps
        /\ Call(r, c)

NextRepo ==
    \/ SeqCall
    \/ RepoStep
    \/ \E r \in Clients : ReturnLogged(r)

SpecRepo == InitRepo /\ [][NextRepo]_vars

-----------------------------------------------------------------------------
(* The HTTP layer: pure parts. *)

IsSpace(c) == c \in {" ", "\t", "\n", "\r"}

RECURSIVE TrimLeft(_)
TrimLeft(s) == IF s # <<>> /\ IsSpace(Head(s)) THEN TrimLeft(Tail(s)) ELSE s

RECURSIVE TrimRight(_)
TrimRight(s) ==
    IF s # <<>> /\ IsSpace(s[Len(s)]) THEN TrimRight(SubSeq(s, 1, Len(s) - 1)) ELSE s

\* strings.TrimSpace
TrimSpace(s) == TrimRight(TrimLeft(s))

RECURSIVE TrimSlashLeft(_)
TrimSlashLeft(s) == IF s # <<>> /\ Head(s) = "/" THEN TrimSlashLeft(Tail(s)) ELSE s

RECURSIVE TrimSlashRight(_)
TrimSlashRight(s) ==
    IF s # <<>> /\ s[Len(s)] = "/" THEN TrimSlashRight(SubSeq(s, 1, Len(s) - 1)) ELSE s

\* strings.Trim(s, "/")
TrimSlash(s) == TrimSlashRight(TrimSlashLeft(s))

extractIDKeepingSlashes(path) ==
    IF Len(path) < 2 THEN [err |-> TRUE, id |-> <<>>]
    ELSE IF path[1] # "/" THEN [err |-> TRUE, id |-> <<>>]
    ELSE LET id == TrimSlash(Tail(path))
         IN  IF id = <<>> THEN [err |-> TRUE, id |-> <<>>] ELSE [err |-> FALSE, id |-> id]

\* extractID: err = FALSE stands for a nil error.
extractID(path) ==
    IF Len(path) < 2 THEN [err |-> TRUE, id |-> <<>>]
    ELSE IF path[1] # "/" THEN [err |-> TRUE, id |-> <<>>]
    ELSE LET id == TrimSlash(Tail(path))
         IN  IF id = <<>> \/ (\E i \in 1..Len(id) : id[i] = "/")
             THEN [err |-> TRUE, id |-> <<>>]
             ELSE [err |-> FALSE, id |-> id]

\* strings.TrimPrefix(r.URL.Path, "/api/books"): a path is the chunk of a
\* registered pattern, when it starts with one, followed by single characters.
TrimPrefixBooks(path) ==
    IF path # <<>> /\ Head(path) = "/api/books" THEN Tail(path) ELSE path

\* http.ServeMux with the patterns "/health", "/api/books" and "/api/books/".
Route(path) ==
    IF path = <<"/health">> THEN "healthHandler"
    ELSE IF path = <<"/api/books">> THEN "booksHandler"
    ELSE IF Len(path) >= 2 /\ path[1] = "/api/books" /\ path[2] = "/" THEN "bookHandler"
    ELSE "NotFound"

readBookPayloadUntrimmed(q) ==
    LET none == [Title |-> <<>>, Author |-> <<>>, ISBN |-> <<>>, PublishedYear |-> 0]
    IN  IF ~(q.contentType # <<>> /\ Head(q.contentType) = "application/json")
        THEN [err |-> "errUnsupportedMediaType", payload |-> none]
        ELSE IF q.body.kind # "json"
        THEN [err |-> "errInvalidJSON", payload |-> none]
        ELSE LET p == [Title |-> q.body.Title, Author |-> q.body.Author,
                       ISBN |-> q.body.ISBN, PublishedYear |-> q.body.PublishedYear]
             IN  IF p.Title = <<>> \/ p.Author = <<>>
                 THEN [err |-> "errInvalidPayload", payload |-> none]
                 ELSE [err |-> "nil", payload |-> p]

\* readBookPayload: err is "nil" or the error returned.
readBookPayload(q) ==
    LET none == [Title |-> <<>>, Author |-> <<>>, ISBN |-> <<>>, PublishedYear |-> 0]
    IN  IF ~(q.contentType # <<>> /\ Head(q.contentType) = "application/json")
        THEN [err |-> "errUnsupportedMediaType", payload |-> none]
        ELSE IF q.body.kind # "json"
        THEN [err |-> "errInvalidJSON", payload |-> none]
        ELSE LET p == [Title |-> TrimSpace(q.body.Title),
                       Author |-> TrimSpace(q.body.Author),
                       ISBN |-> TrimSpace(q.body.ISBN),
                       PublishedYear |-> q.body.PublishedYear]
             IN  IF p.Title = <<>> \/ p.Author = <<>>
                 THEN [err |-> "errInvalidPayload", payload |-> none]
                 ELSE [err |-> "nil", payload |-> p]

\* handlePayloadError: the status and message handed to writeError.
handlePayloadError(err) ==
    CASE err = "errUnsupportedMediaType" ->
             [status |-> 415, msg |-> "content type must be application/json"]
      [] err = "errInvalidJSON" -> [status |-> 400, msg |-> "invalid JSON payload"]
      [] err = "errInvalidPayload" -> [status |-> 400, msg |-> "title and author are required"]
      [] OTHER -> [status |-> 400, msg |-> "invalid request body"]

\* books.Book{Title: payload.Title, ...}
BookOf(p) == Book(<<>>, p.Title, p.Author, p.ISBN, p.PublishedYear)

contextDoneAlwaysCanceled(err) ==
    IF err = "nil" THEN [done |-> FALSE, status |-> 0, msg |-> ""]
    ELSE [done |-> TRUE, status |-> 408, msg |-> "request canceled"]

contextDoneCanceledAsTimeout(err) ==
    IF err = "nil" THEN [done |-> FALSE, status |-> 0, msg |-> ""]
    ELSE [done |-> TRUE, status |-> 504, msg |-> "request timed out"]

\* contextDone: whether ctx.Err() is set, and the error response it writes.
contextDone(err) ==
    IF err = "nil" THEN [done |-> FALSE, status |-> 0, msg |-> ""]
    ELSE IF err = "DeadlineExceeded"
    THEN [done |-> TRUE, status |-> 504, msg |-> "request timed out"]
    ELSE [done |-> TRUE, status |-> 408, msg |-> "request canceled"]

\* ResponseWriter.WriteHeader: the first status is the one sent.
WriteHeader(w, code) ==
    [w EXCEPT !.status = IF @ = 0 THEN code ELSE @, !.headerCalls = @ + 1]

\* len(b) of the bytes a body is written as, in units: a list takes one for
\* its brackets and one for each book, every other body takes one.
EncodedLen(v) == IF v.kind = "books" THEN 1 + Len(v.list) ELSE 1

\* ResponseWriter.Write: sends 200 first when no status was written.
Write(w, b) ==
    [w EXCEPT !.status = IF @ = 0 THEN 200 ELSE @, !.body = Append(@, b),
              !.bytes = @ + EncodedLen(b)]

\* writeJSON(w, status, v)
writeJSON(w, status, v) ==
    Write(WriteHeader([w EXCEPT !.contentType = "application/json"], status), v)

\* writeError(w, status, message)
writeError(w, status, message) ==
    writeJSON(w, status, [NoPayload EXCEPT !.kind = "error", !.msg = message])

\* responseRecorder.WriteHeader and responseRecorder.Write, on the recorder's fields.
RecordHeaderDropped(rec, code) == rec

RecordHeader(rec, code) == [rec EXCEPT !.status = code]

RecordWrite(rec, n) == [rec EXCEPT !.status = IF @ = 0 THEN 200 ELSE @, !.size = @ + n]

chainLastOutermost(h, middlewares) ==
    [i \in 1..Len(middlewares) |-> middlewares[Len(middlewares) + 1 - i]] \o h

chainWithoutFirst(h, middlewares) == Tail(middlewares) \o h

\* chain(h, middlewares...): the handlers in the order a request passes them,
\* the last middleware wrapped first and so the first one outermost.
RECURSIVE chainFrom(_, _, _)
chainFrom(h, middlewares, i) ==
    IF i < 1 THEN h ELSE chainFrom(<<middlewares[i]>> \o h, middlewares, i - 1)

chain(h, middlewares) == chainFrom(h, middlewares, Len(middlewares))

\* handler := chain(mux, app.timeoutMiddleware, app.loggingMiddleware, corsMiddleware)
Handler == chain(<<"mux">>, <<"timeoutMiddleware", "loggingMiddleware", "corsMiddleware">>)

\* next.ServeHTTP of the decorator `name`.
NextHandler(name) == Handler[(CHOOSE i \in 1..Len(Handler) : Handler[i] = name) + 1]

IsPreflightNever(method) == FALSE

\* corsMiddleware: r.Method == http.MethodOptions
IsPreflight(method) == method = "OPTIONS"

-----------------------------------------------------------------------------
(* The HTTP layer: the steps of a request. *)

InFlight(r) == pc[r] \notin {"idle", "done"}

\* Whether the handler's w is the responseRecorder.
Recorded(r) == \E i \in 1..Len(stack[r]) : stack[r][i] = "loggingMiddleware"

\* Where control goes when the innermost handler returns.
ReturnTo(st) ==
    IF st = <<>> THEN "done"
    ELSE IF st[Len(st)] = "loggingMiddleware" THEN "loggingReturn" ELSE "timeoutReturn"

Repo == <<books, nextID, mu>>

\* The server accepts request q and starts its handler.
Receive(r, q) ==
    /\ pc[r] \in {"idle", "done"}
    /\ req' = [req EXCEPT ![r] = q]
    /\ ctx' = [ctx EXCEPT ![r] = Background]
    /\ rr' = [rr EXCEPT ![r] = NoRecorder]
    /\ resp' = [resp EXCEPT ![r] = NoResp]
    /\ calls' = [calls EXCEPT ![r] = <<>>]
    /\ stack' = [stack EXCEPT ![r] = <<>>]
    /\ obs' = [obs EXCEPT ![r] = [NoObs EXCEPT !.books = books, !.nextID = nextID]]
    /\ op' = [op EXCEPT ![r] = NoOp]
    /\ pc' = [pc EXCEPT ![r] = Handler[1]]
    /\ UNCHANGED <<Repo, Hist, srv>>

\* The client goes away: the server cancels the request's context.
ClientDisconnect(r) ==
    /\ InFlight(r)
    /\ ctx[r].err = "nil"
    /\ ctx' = [ctx EXCEPT ![r].err = "Canceled"]
    /\ UNCHANGED <<Repo, Hist, srv, pc, op, req, rr, resp, calls, stack, obs>>

\* The timer of context.WithTimeout fires.
DeadlineExceeded(r) ==
    /\ InFlight(r)
    /\ ctx[r].deadline
    /\ ctx[r].err = "nil"
    /\ ctx' = [ctx EXCEPT ![r].err = "DeadlineExceeded"]
    /\ UNCHANGED <<Repo, Hist, srv, pc, op, req, rr, resp, calls, stack, obs>>

\* timeoutMiddleware: ctx, cancel := context.WithTimeout(r.Context(), app.timeout)
TimeoutMiddleware(r) ==
    /\ pc[r] = "timeoutMiddleware"
    /\ ctx' = [ctx EXCEPT ![r].deadline = TRUE]
    /\ calls' = [calls EXCEPT ![r] = Append(@, "timeoutMiddleware")]
    /\ stack' = [stack EXCEPT ![r] = Append(@, "timeoutMiddleware")]
    /\ pc' = [pc EXCEPT ![r] = NextHandler("timeoutMiddleware")]
    /\ UNCHANGED <<Repo, Hist, srv, op, req, rr, resp, obs>>

\* timeoutMiddleware: defer cancel()
TimeoutReturn(r) ==
    /\ pc[r] = "timeoutReturn"
    /\ ctx' = [ctx EXCEPT ![r] = [deadline |-> FALSE,
                                  err |-> IF @.err = "nil" THEN "Canceled" ELSE @.err]]
    /\ stack' = [stack EXCEPT ![r] = SubSeq(@, 1, Len(@) - 1)]
    /\ pc' = [pc EXCEPT ![r] = ReturnTo(stack'[r])]
    /\ UNCHANGED <<Repo, Hist, srv, op, req, rr, resp, calls, obs>>

\* loggingMiddleware: rr := &responseRecorder{ResponseWriter: w}
LoggingMiddleware(r) ==
    /\ pc[r] = "loggingMiddleware"
    /\ rr' = [rr EXCEPT ![r] = NoRecorder]
    /\ calls' = [calls EXCEPT ![r] = Append(@, "loggingMiddleware")]
    /\ stack' = [stack EXCEPT ![r] = Append(@, "loggingMiddleware")]
    /\ pc' = [pc EXCEPT ![r] = NextHandler("loggingMiddleware")]
    /\ UNCHANGED <<Repo, Hist, srv, op, req, ctx, resp, obs>>

\* loggingMiddleware: status := rr.status; if status == 0 { status = 200 }; log.Printf
LoggingReturn(r) ==
    /\ pc[r] = "loggingReturn"
    /\ rr' = [rr EXCEPT ![r].logged = IF rr[r].status = 0 THEN 200 ELSE rr[r].status,
                        ![r].loggedSize = rr[r].size]
    /\ stack' = [stack EXCEPT ![r] = SubSeq(@, 1, Len(@) - 1)]
    /\ pc' = [pc EXCEPT ![r] = ReturnTo(stack'[r])]
    /\ UNCHANGED <<Repo, Hist, srv, op, req, ctx, resp, calls, obs>>

\* corsMiddleware: set the headers; answer a preflight with 204, else go on.
CorsMiddleware(r) ==
    /\ pc[r] = "corsMiddleware"
    /\ calls' = [calls EXCEPT ![r] = Append(@, "corsMiddleware")]
    /\ IF IsPreflight(req[r].method)
       THEN /\ resp' = [resp EXCEPT ![r] = WriteHeader([@ EXCEPT !.cors = TRUE], 204)]
            /\ rr' = IF Recorded(r) THEN [rr EXCEPT ![r] = RecordHeader(@, 204)] ELSE rr
            /\ pc' = [pc EXCEPT ![r] = ReturnTo(stack[r])]
       ELSE /\ resp' = [resp EXCEPT ![r].cors = TRUE]
            /\ rr' = rr
            /\ pc' = [pc EXCEPT ![r] = NextHandler("corsMiddleware")]
    /\ UNCHANGED <<Repo, Hist, srv, op, req, ctx, stack, obs>>

\* A handler answers with writeError and returns.
AnswerError(r, name, status, msg) ==
    /\ resp' = [resp EXCEPT ![r] = writeError(@, status, msg)]
    /\ rr' = IF Recorded(r)
             THEN [rr EXCEPT ![r] = RecordWrite(RecordHeader(@, status),
                                                resp'[r].bytes - resp[r].bytes)]
             ELSE rr
    /\ calls' = [calls EXCEPT ![r] = @ \o name]
    /\ obs' = [obs EXCEPT ![r].atAnswer = ctx[r].err]
    /\ pc' = [pc EXCEPT ![r] = ReturnTo(stack[r])]

\* A handler calls method c.name of app.store with r.Context().
CallStore(r, name, c) ==
    /\ op' = [op EXCEPT ![r] = c]
    /\ obs' = [obs EXCEPT ![r].atCall = ctx[r].err]
    /\ calls' = [calls EXCEPT ![r] = @ \o name \o <<c.name>>]
    /\ pc' = [pc EXCEPT ![r] = c.name]
    /\ UNCHANGED <<rr, resp>>

\* The mux finds no pattern for the path: http.NotFound.
MuxNotFound(r) ==
    /\ pc[r] = "mux"
    /\ Route(req[r].path) = "NotFound"
    /\ resp' = [resp EXCEPT ![r] =
                  Write(WriteHeader([@ EXCEPT !.contentType = "text/plain; charset=utf-8"], 404),
                        [NoPayload EXCEPT !.kind = "text", !.msg = "404 page not found"])]
    /\ rr' = IF Recorded(r)
             THEN [rr EXCEPT ![r] = RecordWrite(RecordHeader(@, 404),
                                                resp'[r].bytes - resp[r].bytes)]
             ELSE rr
    /\ calls' = [calls EXCEPT ![r] = @ \o <<"mux">>]
    /\ pc' = [pc EXCEPT ![r] = ReturnTo(stack[r])]
    /\ UNCHANGED <<Repo, Hist, srv, op, req, ctx, stack, obs>>

\* healthHandler
HealthHandler(r) ==
    /\ pc[r] = "mux"
    /\ Route(req[r].path) = "healthHandler"
    /\ IF req[r].method # "GET"
       THEN AnswerError(r, <<"mux", "healthHandler">>, 405, "method not allowed")
       ELSE /\ resp' = [resp EXCEPT ![r] =
                          Write([@ EXCEPT !.contentType = "application/json"],
                                [NoPayload EXCEPT !.kind = "health", !.msg = "ok"])]
            /\ rr' = IF Recorded(r)
                     THEN [rr EXCEPT ![r] = RecordWrite(@, resp'[r].bytes - resp[r].bytes)]
                     ELSE rr
            /\ calls' = [calls EXCEPT ![r] = @ \o <<"mux", "healthHandler">>]
            /\ obs' = obs
            /\ pc' = [pc EXCEPT ![r] = ReturnTo(stack[r])]
    /\ UNCHANGED <<Repo, Hist, srv, op, req, ctx, stack>>

\* booksHandler, and listBooks or createBook up to the call of the store.
BooksHandler(r) ==
    /\ pc[r] = "mux"
    /\ Route(req[r].path) = "booksHandler"
    /\ LET p == readBookPayload(req[r])
       IN  CASE req[r].method = "GET" ->
                  /\ CallStore(r, <<"mux", "booksHandler", "listBooks">>,
                               [NoOp EXCEPT !.name = "List"])
                  /\ UNCHANGED <<Repo, Hist, srv, req, ctx, stack>>
             [] req[r].method = "POST" /\ p.err # "nil" ->
                  /\ AnswerError(r, <<"mux", "booksHandler", "createBook">>,
                                 handlePayloadError(p.err).status, handlePayloadError(p.err).msg)
                  /\ UNCHANGED <<Repo, Hist, srv, op, req, ctx, stack>>
             [] req[r].method = "POST" /\ p.err = "nil" ->
                  /\ CallStore(r, <<"mux", "booksHandler", "createBook">>,
                               [NoOp EXCEPT !.name = "Create", !.book = BookOf(p.payload)])
                  /\ UNCHANGED <<Repo, Hist, srv, req, ctx, stack>>
             [] OTHER ->
                  /\ AnswerError(r, <<"mux", "booksHandler">>, 405, "method not allowed")
                  /\ UNCHANGED <<Repo, Hist, srv, op, req, ctx, stack>>

\* bookHandler, and getBook, updateBook or deleteBook up to the call of the store.
BookHandler(r) ==
    /\ pc[r] = "mux"
    /\ Route(req[r].path) = "bookHandler"
    /\ LET x == extractID(TrimPrefixBooks(req[r].path))
           p == readBookPayload(req[r])
       IN  CASE x.err ->
                  /\ AnswerError(r, <<"mux", "bookHandler">>, 404, "book not found")
                  /\ UNCHANGED <<Repo, Hist, srv, op, req, ctx, stack>>
             [] ~x.err /\ req[r].method = "GET" ->
                  /\ CallStore(r, <<"mux", "bookHandler", "getBook">>,
                               [NoOp EXCEPT !.name = "Get", !.id = x.id])
                  /\ UNCHANGED <<Repo, Hist, srv, req, ctx, stack>>
             [] ~x.err /\ req[r].method = "PUT" /\ p.err # "nil" ->
                  /\ AnswerError(r, <<"mux", "bookHandler", "updateBook">>,
                                 handlePayloadError(p.err).status, handlePayloadError(p.err).msg)
                  /\ UNCHANGED <<Repo, Hist, srv, op, req, ctx, stack>>
             [] ~x.err /\ req[r].method = "PUT" /\ p.err = "nil" ->
                  /\ CallStore(r, <<"mux", "bookHandler", "updateBook">>,
                               [NoOp EXCEPT !.name = "Update", !.id = x.id,
                                            !.book = BookOf(p.payload)])
                  /\ UNCHANGED <<Repo, Hist, srv, req, ctx, stack>>
             [] ~x.err /\ req[r].method = "DELETE" ->
                  /\ CallStore(r, <<"mux", "bookHandler", "deleteBook">>,
                               [NoOp EXCEPT !.name = "Delete", !.id = x.id])
                  /\ UNCHANGED <<Repo, Hist, srv, req, ctx, stack>>
             [] OTHER ->
                  /\ AnswerError(r, <<"mux", "bookHandler">>, 405, "method not allowed")
                  /\ UNCHANGED <<Repo, Hist, srv, op, req, ctx, stack>>

ContextDoneAfterNotFound(r) ==
    /\ pc[r] = "returned"
    /\ IF op[r].name \in {"Get", "Update", "Delete"} /\ ~op[r].ok
       THEN /\ resp' = [resp EXCEPT ![r] = writeError(@, 404, "book not found")]
            /\ rr' = IF Recorded(r)
                     THEN [rr EXCEPT ![r] = RecordWrite(RecordHeader(@, 404),
                                                  resp'[r].bytes - resp[r].bytes)]
                     ELSE rr
            /\ pc' = [pc EXCEPT ![r] = ReturnTo(stack[r])]
            /\ obs' = obs
       ELSE /\ obs' = [obs EXCEPT ![r].atCheck = ctx[r].err]
            /\ LET d == contextDone(ctx[r].err)
               IN  IF d.done
                   THEN /\ resp' = [resp EXCEPT ![r] = writeError(@, d.status, d.msg)]
                        /\ rr' = IF Recorded(r)
                                 THEN [rr EXCEPT ![r] = RecordWrite(RecordHeader(@, d.status),
                                                              resp'[r].bytes - resp[r].bytes)]
                                 ELSE rr
                        /\ pc' = [pc EXCEPT ![r] = ReturnTo(stack[r])]
                   ELSE /\ pc' = [pc EXCEPT ![r] = "respond"]
                        /\ UNCHANGED <<rr, resp>>
    /\ UNCHANGED <<Repo, Hist, srv, op, req, ctx, calls, stack>>

ContextDoneRetries(r) ==
    /\ pc[r] = "returned"
    /\ obs' = [obs EXCEPT ![r].atCheck = ctx[r].err]
    /\ IF contextDone(ctx[r].err).done
       THEN /\ pc' = [pc EXCEPT ![r] = op[r].name]
            /\ calls' = [calls EXCEPT ![r] = Append(@, op[r].name)]
       ELSE /\ pc' = [pc EXCEPT ![r] = "respond"]
            /\ calls' = calls
    /\ UNCHANGED <<Repo, Hist, srv, op, req, ctx, rr, resp, stack>>

ContextDoneFallsThrough(r) ==
    /\ pc[r] = "returned"
    /\ obs' = [obs EXCEPT ![r].atCheck = ctx[r].err]
    /\ LET d == contextDone(ctx[r].err)
       IN  IF d.done
           THEN /\ resp' = [resp EXCEPT ![r] = writeError(@, d.status, d.msg)]
                /\ rr' = IF Recorded(r)
                         THEN [rr EXCEPT ![r] = RecordWrite(RecordHeader(@, d.status),
                                                      resp'[r].bytes - resp[r].bytes)]
                         ELSE rr
           ELSE UNCHANGED <<rr, resp>>
    /\ pc' = [pc EXCEPT ![r] = "respond"]
    /\ UNCHANGED <<Repo, Hist, srv, op, req, ctx, calls, stack>>

\* The message of the 500 a handler answers a failed store call with.
FailureMessage(name) ==
    CASE name = "List" -> "failed to list books"
      [] name = "Get" -> "failed to fetch book"
      [] name = "Create" -> "failed to create book"
      [] name = "Update" -> "failed to update book"
      [] name = "Delete" -> "failed to delete book"

\* The store has returned: if err != nil { writeError(w, 500, ...); return }
\* and then if contextDone(w, r.Context()) { return }
ContextDone(r) ==
    /\ pc[r] = "returned"
    /\ obs' = [obs EXCEPT ![r].atCheck = IF op[r].err # "nil" THEN @ ELSE ctx[r].err]
    /\ LET d == IF op[r].err # "nil"
                THEN [done |-> TRUE, status |-> 500, msg |-> FailureMessage(op[r].name)]
                ELSE contextDone(ctx[r].err)
       IN  IF d.done
           THEN /\ resp' = [resp EXCEPT ![r] = writeError(@, d.status, d.msg)]
                /\ rr' = IF Recorded(r)
                         THEN [rr EXCEPT ![r] = RecordWrite(RecordHeader(@, d.status),
                                                      resp'[r].bytes - resp[r].bytes)]
                         ELSE rr
                /\ pc' = [pc EXCEPT ![r] = ReturnTo(stack[r])]
           ELSE /\ pc' = [pc EXCEPT ![r] = "respond"]
                /\ UNCHANGED <<rr, resp>>
    /\ UNCHANGED <<Repo, Hist, srv, op, req, ctx, calls, stack>>

\* What a handler writes after contextDone returned false.
Answer(c) ==
    CASE c.name = "List" ->
             [status |-> 200, body |-> [NoPayload EXCEPT !.kind = "books", !.list = c.list]]
      [] c.name = "Create" ->
             [status |-> 201, body |-> [NoPayload EXCEPT !.kind = "book", !.book = c.book]]
      [] c.name \in {"Get", "Update"} /\ c.ok ->
             [status |-> 200, body |-> [NoPayload EXCEPT !.kind = "book", !.book = c.book]]
      [] c.name = "Delete" /\ c.ok ->
             [status |-> 204, body |-> NoPayload]
      [] OTHER ->
             [status |-> 404, body |-> [NoPayload EXCEPT !.kind = "error", !.msg = "book not found"]]

\* The rest of listBooks, getBook, createBook, updateBook and deleteBook.
Respond(r) ==
    /\ pc[r] = "respond"
    /\ obs' = [obs EXCEPT ![r].atWrite = ctx[r].err]
    /\ LET a == Answer(op[r])
           w == IF op[r].name = "Create"
                THEN [resp[r] EXCEPT !.location = <<"/api/books/">> \o op[r].book.ID]
                ELSE resp[r]
       IN  IF a.body.kind = "none"
           THEN /\ resp' = [resp EXCEPT ![r] = WriteHeader(w, a.status)]
                /\ rr' = IF Recorded(r) THEN [rr EXCEPT ![r] = RecordHeader(@, a.status)] ELSE rr
           ELSE /\ resp' = [resp EXCEPT ![r] = writeJSON(w, a.status, a.body)]
                /\ rr' = IF Recorded(r)
                         THEN [rr EXCEPT ![r] = RecordWrite(RecordHeader(@, a.status),
                                                      resp'[r].bytes - resp[r].bytes)]
                         ELSE rr
    /\ pc' = [pc EXCEPT ![r] = ReturnTo(stack[r])]
    /\ UNCHANGED <<Repo, Hist, srv, op, req, ctx, calls, stack>>

-----------------------------------------------------------------------------
(* The requests of the model. *)

Methods == {"GET", "POST", "PUT", "DELETE", "OPTIONS", "PATCH"}

Paths ==
    { <<"/health">>,
      <<"/api/books">>,
      <<"/api/books", "/">>,
      <<"/api/books", "/", "2">>,
      <<"/api/books", "/", "5", "/">>,
      <<"/api/books", "/", "9", "9">>,
      <<"/api/books", "/", "2", "/", "x">>,
      <<"/nope">> }

ContentTypes ==
    { <<"application/json">>, <<"application/json", "; charset=utf-8">>, <<"text/plain">> }

JSONBody(title, author) ==
    [kind |-> "json", Title |-> title, Author |-> author,
     ISBN |-> <<"9780000000000">>, PublishedYear |-> 2024]

Bodies ==
    { JSONBody(<<"Go Workshop">>, <<"Jane Doe">>),
      JSONBody(<<" ", "Go Workshop", " ">>, <<"Jane Doe">>),
      JSONBody(<<>>, <<"X">>),
      JSONBody(<<"Go Workshop">>, <<" ">>),
      [NoBody EXCEPT !.kind = "malformed"] }

\* The content types and bodies of a write: the accepted body under every
\* content type, and every body as application/json.
Uploads ==
    {<<t, JSONBody(<<"Go Workshop">>, <<"Jane Doe">>)>> : t \in ContentTypes}
    \cup {<<<<"application/json">>, b>> : b \in Bodies}

\* Every method on every path without a body, and POST and PUT on the paths
\* that name the collection or one book with every upload.
Requests ==
    {[method |-> m, path |-> p, contentType |-> <<>>, body |-> NoBody] :
        m \in Methods, p \in Paths}
    \cup
    {[method |-> m, path |-> p, contentType |-> u[1], body |-> u[2]] :
        m \in {"POST", "PUT"},
        p \in {x \in Paths : Route(x) = "booksHandler" \/ ~extractID(TrimPrefixBooks(x)).err},
        u \in Uploads}

\* main: the repository seeded with SeedData, serving one request after another.
Init == RepoInit(SeedData, {1})

\* A request arrives; a POST only while the counter is within the bound.
Arrive ==
    \E r \in Clients : \E q \in Requests :
        /\ q.method = "POST" => nextID <= MaxNextID
        /\ Receive(r, q)

Next ==
    \/ Arrive
    \/ \E r \in Clients : ClientDisconnect(r)
    \/ \E r \in Clients : DeadlineExceeded(r)
    \/ \E r \in Clients : TimeoutMiddleware(r)
    \/ \E r \in Clients : LoggingMiddleware(r)
    \/ \E r \in Clients : CorsMiddleware(r)
    \/ \E r \in Clients : MuxNotFound(r)
    \/ \E r \in Clients : HealthHandler(r)
    \/ \E r \in Clients : BooksHandler(r)
    \/ \E r \in Clients : BookHandler(r)
    \/ RepoStep
    \/ \E r \in Clients : ContextDone(r)
    \/ \E r \in Clients : Respond(r)
    \/ \E r \in Clients : LoggingReturn(r)
    \/ \E r \in Clients : TimeoutReturn(r)

Spec == Init /\ [][Next]_vars

-----------------------------------------------------------------------------
(* extractID called on its own, on every short path, next to the server. *)

PathChars == {"/", "2", "x"}

\* The strings over PathChars of length n or less.
RECURSIVE PathsUpTo(_)
PathsUpTo(n) ==
    IF n = 0 THEN {<<>>}
    ELSE PathsUpTo(n - 1) \cup
         {Append(p, c) : p \in {x \in PathsUpTo(n - 1) : Len(x) = n - 1}, c \in PathChars}

\* got, err := extractID(tc.path): the path is kept in req, the outcome in op.
CallExtractID ==
    \E r \in Clients : \E p \in PathsUpTo(MaxPathLen) :
        /\ pc[r] \in {"idle", "done"}
        /\ req' = [req EXCEPT ![r] = [NoReq EXCEPT !.path = p]]
        /\ op' = [op EXCEPT ![r] = [NoOp EXCEPT !.name = "extractID",
                                                 !.id = extractID(p).id,
                                                 !.ok = ~extractID(p).err]]
        /\ ctx' = [ctx EXCEPT ![r] = Background]
        /\ rr' = [rr EXCEPT ![r] = NoRecorder]
        /\ resp' = [resp EXCEPT ![r] = NoResp]
        /\ calls' = [calls EXCEPT ![r] = <<>>]
        /\ stack' = [stack EXCEPT ![r] = <<>>]
        /\ obs' = [obs EXCEPT ![r] = NoObs]
        /\ pc' = [pc EXCEPT ![r] = "done"]
        /\ UNCHANGED <<Repo, Hist, srv>>

NextPath ==
    \/ CallExtractID
    \/ Next

SpecPath == Init /\ [][NextPath]_vars

-----------------------------------------------------------------------------
(* shutdown(srv): the main goroutine, while the server answers requests. *)

\* signal.NotifyContext(context.Background(), os.Interrupt, syscall.SIGTERM)
ShutdownSignals == {"SIGINT", "SIGTERM"}

\* The process receives one of the signals shutdown listens for.
SignalReceived ==
    \E sig \in ShutdownSignals :
        /\ srv.phase = "waitSignal"
        /\ srv.signal = "none"
        /\ srv' = [srv EXCEPT !.signal = sig]
        /\ UNCHANGED <<Repo, Hist, Http, pc, op>>

\* <-ctx.Done() returns; ctxTimeout is made and srv.Shutdown(ctxTimeout) is
\* called: the listener is closed at once.
CallShutdown ==
    /\ srv.phase = "waitSignal"
    /\ srv.signal # "none"
    /\ srv' = [srv EXCEPT !.phase = "Shutdown", !.accepting = FALSE,
                          !.shutdownCalls = @ + 1, !.drain = ShutdownTimeout]
    /\ UNCHANGED <<Repo, Hist, Http, pc, op>>

\* srv.Shutdown returns: nil or the listener's error once no request is in
\* flight, ctxTimeout's error when the drain deadline passes before that.
ShutdownReturns ==
    \E e \in {"nil", "listener close error", "DeadlineExceeded"} :
        /\ srv.phase = "Shutdown"
        /\ e = "DeadlineExceeded" <=> (\E r \in Clients : InFlight(r))
        /\ srv' = [srv EXCEPT !.phase = "shutdownReturned", !.shutdownErr = e]
        /\ UNCHANGED <<Repo, Hist, Http, pc, op>>

NeedsCloseAlways(err) == TRUE

\* if err := srv.Shutdown(ctxTimeout); err != nil
NeedsClose(err) == err # "nil"

\* The rest of shutdown: srv.Close() when Shutdown failed; then shutdown and
\* main return and the process ends.
FinishShutdown ==
    /\ srv.phase = "shutdownReturned"
    /\ srv' = [srv EXCEPT !.phase = "exited",
                          !.closeCalls = IF NeedsClose(srv.shutdownErr) THEN @ + 1 ELSE @]
    /\ UNCHANGED <<Repo, Hist, Http, pc, op>>

\* The requests served while the server is shut down.
ShutdownRequests ==
    {q \in Requests : q.method = "GET" /\ q.path \in {<<"/health">>, <<"/api/books">>}}

\* The process has not ended.
Running == srv.phase # "exited"

\* A request is accepted: the listener is open.
ArriveOpen ==
    \E r \in Clients : \E q \in ShutdownRequests :
        /\ srv.accepting
        /\ Receive(r, q)

NextShutdown ==
    \/ SignalReceived
    \/ CallShutdown
    \/ ShutdownReturns
    \/ FinishShutdown
    \/ ArriveOpen
    \/ Running /\ \E r \in Clients : ClientDisconnect(r)
    \/ Running /\ \E r \in Clients : DeadlineExceeded(r)
    \/ Running /\ \E r \in Clients : TimeoutMiddleware(r)
    \/ Running /\ \E r \in Clients : LoggingMiddleware(r)
    \/ Running /\ \E r \in Clients : CorsMiddleware(r)
    \/ Running /\ \E r \in Clients : HealthHandler(r)
    \/ Running /\ \E r \in Clients : BooksHandler(r)
    \/ Running /\ \E r \in Clients : RLock(r)
    \/ Running /\ \E r \in Clients : ListBody(r)
    \/ Running /\ \E r \in Clients : RUnlock(r)
    \/ Running /\ \E r \in Clients : ContextDone(r)
    \/ Running /\ \E r \in Clients : Respond(r)
    \/ Running /\ \E r \in Clients : LoggingReturn(r)
    \/ Running /\ \E r \in Clients : TimeoutReturn(r)

SpecShutdown == Init /\ [][NextShutdown]_vars

-----------------------------------------------------------------------------
(* The server serving NumClients requests at once, each on its own goroutine. *)

\* One request for each of listBooks, getBook, createBook, updateBook and
\* deleteBook, the last three and getBook for the id the first POST assigns.
ServeRequests ==
    {q \in Requests :
        /\ q.path \in {<<"/api/books">>, <<"/api/books", "/", "5", "/">>}
        /\ \/ q.method \in {"GET", "DELETE"} /\ q.body = NoBody
           \/ /\ q.method = "POST" /\ q.path = <<"/api/books">>
              /\ q.contentType = <<"application/json">>
              /\ q.body = JSONBody(<<"Go Workshop">>, <<"Jane Doe">>)
           \/ /\ q.method = "PUT" /\ q.path # <<"/api/books">>
              /\ q.contentType = <<"application/json">>
              /\ q.body = JSONBody(<<"Go Workshop">>, <<"Jane Doe">>)
        /\ q.method = "DELETE" => q.path # <<"/api/books">>}

InitServe == RepoInit(SeedData, 1..NumClients)

\* The POST requests being served.
PostsInFlight == Cardinality({r \in Clients : InFlight(r) /\ req[r].method = "POST"})

\* A request arrives while others are served; a POST only while the counter
\* stays within the bound.  Clients stay connected; deadlines may pass.
ArriveServe ==
    \E r \in Clients : \E q \in ServeRequests :
        /\ q.method = "POST" => nextID + PostsInFlight <= MaxServeID
        /\ Receive(r, q)

NextServe ==
    \/ ArriveServe
    \/ \E r \in Clients : DeadlineExceeded(r)
    \/ \E r \in Clients : TimeoutMiddleware(r)
    \/ \E r \in Clients : LoggingMiddleware(r)
    \/ \E r \in Clients : CorsMiddleware(r)
    \/ \E r \in Clients : BooksHandler(r)
    \/ \E r \in Clients : BookHandler(r)
    \/ RepoStep
    \/ LockStep
    \/ \E r \in Clients : ContextDone(r)
    \/ \E r \in Clients : Respond(r)
    \/ \E r \in Clients : LoggingReturn(r)
    \/ \E r \in Clients : TimeoutReturn(r)

SpecServe == InitServe /\ [][NextServe]_vars

\* The steps of goroutine r that wait for nobody: the runtime schedules every
\* runnable goroutine, so r takes the one that is enabled.
Proceed(r) ==
    \/ TimeoutMiddleware(r) \/ LoggingMiddleware(r) \/ CorsMiddleware(r)
    \/ BooksHandler(r) \/ BookHandler(r)
    \/ ListBody(r) \/ GetBody(r) \/ RUnlock(r)
    \/ LockAcquire(r)
    \/ CreateAssignID(r) \/ CreateIncrement(r) \/ CreateStore(r)
    \/ UpdateCheck(r) \/ UpdateStore(r)
    \/ DeleteCheck(r) \/ DeleteRemove(r) \/ Unlock(r)
    \/ ContextDone(r) \/ Respond(r) \/ LoggingReturn(r) \/ TimeoutReturn(r)

\* The steps of r that block while others hold the lock: RLock, and Lock up
\* to the point where the writer has announced itself.
Acquire(r) == RLock(r) \/ Lock(r) \/ LockPending(r)

\* A runnable goroutine runs; a goroutine blocked in RLock or Lock is woken
\* when the lock is released and is not passed over for ever (sync.RWMutex
\* admits the blocked readers at Unlock, and the sync.Mutex that orders its
\* writers hands the lock to a waiter that has waited long).  Arrivals and
\* passing deadlines are the environment's and carry no fairness.
Fairness == \A r \in 1..NumClients : WF_vars(Proceed(r)) /\ SF_vars(Acquire(r))

\* The server of SpecServe with no deadline passing: a deadline changes which
\* answer is written, never which step a goroutine can take.
NextLive ==
    \/ ArriveServe
    \/ \E r \in Clients : TimeoutMiddleware(r)
    \/ \E r \in Clients : LoggingMiddleware(r)
    \/ \E r \in Clients : CorsMiddleware(r)
    \/ \E r \in Clients : BooksHandler(r)
    \/ \E r \in Clients : BookHandler(r)
    \/ RepoStep
    \/ LockStep
    \/ \E r \in Clients : ContextDone(r)
    \/ \E r \in Clients : Respond(r)
    \/ \E r \in Clients : LoggingReturn(r)
    \/ \E r \in Clients : TimeoutReturn(r)

SpecLive == InitServe /\ [][NextLive]_vars /\ Fairness

-----------------------------------------------------------------------------
(* Properties of the repository under concurrent callers (SpecConc). *)

\* All (caller, position) pairs of the ids Create has returned.
Issuances == {<<r, i>> : r \in Clients, i \in 1..MaxNextID} \cap
             {x \in Clients \X (1..MaxNextID) : x[2] <= Len(issued[x[1]])}

\* C1: no two Create calls, of one caller or of several at once, ever return
\* the same id, and the ids one caller receives from Creates it issues one
\* after another are strictly increasing in numeric value.
C1_CreateIdsDistinctIncreasing ==
    /\ \A x \in Issuances, y \in Issuances :
          x # y => issued[x[1]][x[2]] # issued[y[1]][y[2]]
    /\ \A r \in Clients : \A i \in 1..Len(issued[r]) : \A j \in 1..Len(issued[r]) :
          i < j => /\ ~Atoi(issued[r][i]).err
                   /\ ~Atoi(issued[r][j]).err
                   /\ Atoi(issued[r][i]).val < Atoi(issued[r][j]).val

\* Two Creates of different goroutines were in flight together and both have
\* returned an id.
C1_Witness ==
    \E r \in Clients : \E q \in Clients \ {r} :
        /\ pc[r] = "returned" /\ op[r].name = "Create"
        /\ pc[q] = "returned" /\ op[q].name = "Create"
        /\ issued[r] # <<>> /\ issued[q] # <<>>

\* C9: while a Create, Update or Delete is inside the critical section no
\* other repository call, read or write, is inside it, and the lock records
\* exactly the goroutines that are inside.
C9_ReadersWriterExclusion ==
    /\ \A r \in Clients : InWrite(r) =>
          /\ mu.w = r
          /\ \A q \in Clients \ {r} : ~InWrite(q) /\ ~InRead(q)
    /\ mu.readers = {r \in Clients : InRead(r)}
    /\ mu.w # 0 => InWrite(mu.w)

\* Two reads (List or Get) are inside the critical section together, no writer is.
C9_Witness ==
    \E r \in Clients : \E q \in Clients \ {r} :
        InRead(r) /\ InRead(q) /\ mu.w = 0 /\ mu.readers = {r, q}

\* The outcome of Get on map m.
GetResult(m, id) ==
    [ok |-> id \in DOMAIN m, book |-> IF id \in DOMAIN m THEN m[id] ELSE ZeroBook]

\* C10: no List or Get observes a partial write: while a read is inside the
\* critical section the map is the one the last complete write left, and the
\* result the read holds is the result of that read on that map.
C10_ReadsSeeCompleteWrites ==
    \A r \in Clients :
        /\ InRead(r) => books = committed
        /\ (pc[r] = "RUnlock" /\ op[r].name = "List") => op[r].list = ListResult(committed)
        /\ (pc[r] = "RUnlock" /\ op[r].name = "Get") =>
              /\ op[r].ok = GetResult(committed, op[r].id).ok
              /\ op[r].book = GetResult(committed, op[r].id).book

\* A List holds its result inside the critical section, after some write
\* changed the map, while a writer waits for the lock.
C10_Witness ==
    \E r \in Clients : \E q \in Clients \ {r} :
        /\ pc[r] = "RUnlock" /\ op[r].name = "List"
        /\ pc[q] \in {"Create", "Update", "Delete"}
        /\ committed # NewMemoryRepository(SeedData).books

-----------------------------------------------------------------------------
(* Properties of the repository under one caller, from any seed (SpecRepo). *)

\* C5: the next-id counter is strictly greater than the integer value of
\* every stored id that parses as an integer, after construction and after
\* every statement of Create, Update and Delete.
C5_NextIDAboveStoredIds ==
    \A k \in DOMAIN books : ~Atoi(k).err => nextID > Atoi(k).val

\* Built from a seed holding a key that is no number and keys out of order,
\* then mutated by a Create and a Delete that found its id.
C5_Witness ==
    /\ \E k \in everPresent : Atoi(k).err
    /\ \E i \in 2..Len(oplog) : oplog[i].name = "Create"
    /\ \E i \in 2..Len(oplog) : oplog[i].name = "Delete" /\ oplog[i].ok

IDsOf(list) == [i \in 1..Len(list) |-> list[i].ID]

\* C6: Create never returns an id that was ever a key of the map, deleted or
\* not; and from the seed of main: Create returns 5, Delete of 2 finds it, the
\* next Create returns 6 and List then returns the ids 1, 3, 4, 5, 6 in that order.
C6_IdsNeverReused ==
    /\ \A r \in Clients :
          pc[r] \in {"CreateIncrement", "CreateStore"} => op[r].book.ID \notin everPresent
    /\ (oplog[1].list = SeedData /\ Len(oplog) >= 2 /\ oplog[2].name = "Create") =>
          /\ oplog[2].book.ID = <<"5">>
          /\ (Len(oplog) >= 4 /\ oplog[3].name = "Delete" /\ oplog[3].id = <<"2">>
                /\ oplog[4].name = "Create") =>
                /\ oplog[3].ok
                /\ oplog[4].book.ID = <<"6">>
                /\ (Len(oplog) >= 5 /\ oplog[5].name = "List") =>
                      IDsOf(oplog[5].list) = << <<"1">>, <<"3">>, <<"4">>, <<"5">>, <<"6">> >>

\* The scenario has run to its end: Create, Delete of 2, Create, List.
C6_Witness ==
    /\ oplog[1].list = SeedData
    /\ Len(oplog) = 5
    /\ oplog[2].name = "Create"
    /\ oplog[3].name = "Delete" /\ oplog[3].id = <<"2">>
    /\ oplog[4].name = "Create"
    /\ oplog[5].name = "List"

-----------------------------------------------------------------------------
(* Properties of the served requests (Spec). *)

Done(r) == pc[r] = "done"

\* The request's accepted draft, as the handler hands it to the store.
DraftOf(r) == BookOf(readBookPayload(req[r]).payload)

\* C2: List, as GET /api/books delivers it with 200, holds exactly the stored
\* books in ascending order of the integer value of their ids.
C2_ListAscendingByNumber ==
    \A r \in Clients :
        (Done(r) /\ resp[r].status = 200 /\ Len(resp[r].body) = 1
            /\ resp[r].body[1].kind = "books") =>
            LET list == resp[r].body[1].list
            IN  /\ {list[i] : i \in 1..Len(list)} = {books[k] : k \in DOMAIN books}
                /\ \A i \in 1..Len(list) : \A j \in 1..Len(list) :
                      i < j => Atoi(list[i].ID).val < Atoi(list[j].ID).val

\* C3 as stated: a request whose context reported DeadlineExceeded at the
\* token check or at the response write was answered with 504, the timeout error.
C3_DeadlineAnytimeGives504 ==
    \A r \in Clients :
        (obs[r].atCheck = "DeadlineExceeded" \/ obs[r].atWrite = "DeadlineExceeded") =>
            /\ resp[r].status = 504
            /\ resp[r].body = <<[NoPayload EXCEPT !.kind = "error", !.msg = "request timed out"]>>

\* C3, amended: when the context reports DeadlineExceeded at the handler's
\* token check (after the store returned), the client receives 504 "request
\* timed out" and nothing else, for list, get, create, update and delete alike;
\* the handler writes its own answer only after a check that found the context live.
C3_DeadlineAtCheckGives504 ==
    \A r \in Clients :
        /\ obs[r].atCheck = "DeadlineExceeded" =>
              /\ resp[r].status = 504
              /\ resp[r].body =
                    <<[NoPayload EXCEPT !.kind = "error", !.msg = "request timed out"]>>
              /\ obs[r].atWrite = "none"
              /\ pc[r] # "respond"
        /\ (obs[r].atWrite # "none" \/ pc[r] = "respond") => obs[r].atCheck = "nil"

\* An update that found its book was answered 504 because the deadline had
\* passed at the token check.
C3_Witness ==
    \E r \in Clients :
        /\ Done(r) /\ op[r].name = "Update" /\ op[r].ok
        /\ obs[r].atCall = "nil" /\ obs[r].atCheck = "DeadlineExceeded"
        /\ resp[r].status = 504

AfterStore(r) == pc[r] \in {"returned", "loggingReturn", "timeoutReturn", "done"}

\* The map is `before` with exactly key id set to book b.
SameBut(before, id, b) ==
    /\ DOMAIN books = DOMAIN before \cup {id}
    /\ books[id] = b
    /\ \A k \in DOMAIN before \ {id} : books[k] = before[k]

\* C4: a Create, Update or Delete called with a context that is already
\* canceled or past its deadline applies its mutation in full, and the client
\* is answered with the timeout (504) or canceled (408) error.
C4_DoneContextStillMutates ==
    \A r \in Clients :
        (obs[r].atCall \in {"Canceled", "DeadlineExceeded"} /\ AfterStore(r)) =>
            /\ op[r].name = "Create" =>
                  /\ op[r].book = [DraftOf(r) EXCEPT !.ID = Itoa(obs[r].nextID)]
                  /\ SameBut(obs[r].books, op[r].book.ID, op[r].book)
                  /\ op[r].book.ID \notin DOMAIN obs[r].books
                  /\ nextID = obs[r].nextID + 1
            /\ (op[r].name = "Update" /\ op[r].id \in DOMAIN obs[r].books) =>
                  /\ op[r].ok
                  /\ SameBut(obs[r].books, op[r].id, [DraftOf(r) EXCEPT !.ID = op[r].id])
            /\ (op[r].name = "Delete" /\ op[r].id \in DOMAIN obs[r].books) =>
                  /\ op[r].ok
                  /\ DOMAIN books = DOMAIN obs[r].books \ {op[r].id}
                  /\ \A k \in DOMAIN books : books[k] = obs[r].books[k]
            /\ (Done(r) /\ op[r].name \in {"Create", "Update", "Delete"}) =>
                  /\ resp[r].status = (IF obs[r].atCall = "DeadlineExceeded" THEN 504 ELSE 408)
                  /\ Len(resp[r].body) = 1
                  /\ resp[r].body[1].kind = "error"

\* A DELETE whose context was canceled before the store was called: the book
\* is gone and the client was answered 408.
C4_Witness ==
    \E r \in Clients :
        /\ Done(r) /\ op[r].name = "Delete" /\ op[r].ok
        /\ obs[r].atCall = "Canceled"
        /\ op[r].id \in DOMAIN obs[r].books /\ op[r].id \notin DOMAIN books
        /\ resp[r].status = 408

Decorators == {"timeoutMiddleware", "loggingMiddleware", "corsMiddleware"}

\* C7 as stated: for an OPTIONS request neither the timeout decorator nor the
\* logging decorator is invoked, and the answer is 204.
C7_PreflightSkipsTimeoutAndLogging ==
    \A r \in Clients :
        req[r].method = "OPTIONS" =>
            /\ \A i \in 1..Len(calls[r]) :
                  calls[r][i] \notin {"timeoutMiddleware", "loggingMiddleware"}
            /\ Done(r) => resp[r].status = 204

\* C7, amended: an OPTIONS request passes the timeout decorator, then the
\* logging decorator, then CORS, which answers 204; nothing wrapped by CORS is
\* invoked, and the logging decorator logs the 204.
C7_PreflightPassesTimeoutLoggingCors ==
    \A r \in Clients :
        req[r].method = "OPTIONS" =>
            /\ \A i \in 1..Len(calls[r]) :
                  calls[r][i] = <<"timeoutMiddleware", "loggingMiddleware", "corsMiddleware">>[i]
            /\ Len(calls[r]) <= 3
            /\ Done(r) =>
                  /\ Len(calls[r]) = 3
                  /\ resp[r].status = 204
                  /\ rr[r].logged = 204

\* A preflight was answered after passing all three decorators.
C7_Witness ==
    \E r \in Clients :
        /\ req[r].method = "OPTIONS" /\ Done(r)
        /\ calls[r] = <<"timeoutMiddleware", "loggingMiddleware", "corsMiddleware">>
        /\ rr[r].logged = 204

\* C8: an OPTIONS request, whatever its path, is answered with 204 and no
\* body; no route handler and no repository method is invoked for it, and the
\* map and the counter stay as they were when it arrived.
C8_PreflightTouchesNothing ==
    \A r \in Clients :
        req[r].method = "OPTIONS" =>
            /\ \A i \in 1..Len(calls[r]) : calls[r][i] \in Decorators
            /\ op[r] = NoOp
            /\ obs[r].atCall = "none"
            /\ pc[r] \in {"timeoutMiddleware", "loggingMiddleware", "corsMiddleware",
                           "loggingReturn", "timeoutReturn", "done"}
            /\ books = obs[r].books
            /\ nextID = obs[r].nextID
            /\ resp[r].body = <<>>
            /\ resp[r].status \in {0, 204}
            /\ Done(r) => resp[r].status = 204 /\ resp[r].headerCalls = 1

\* A preflight for the path of a stored book was answered 204 with no body.
C8_Witness ==
    \E r \in Clients :
        /\ req[r].method = "OPTIONS" /\ req[r].path = <<"/api/books", "/", "2">>
        /\ Done(r)
        /\ resp[r].status = 204 /\ resp[r].body = <<>>
        /\ <<"2">> \in DOMAIN books

\* C11: an Update (PUT) on an id that is not in the store finds nothing
\* (found = false, the zero Book), is answered 404 "book not found" when the
\* context is live at the token check, and at no statement changes the
\* repository: same ids, same book under every id, same next-id counter.
C11_UpdateAbsentChangesNothing ==
    \A r \in Clients :
        (op[r].name = "Update" /\ op[r].id \notin DOMAIN obs[r].books) =>
            /\ DOMAIN books = DOMAIN obs[r].books
            /\ \A k \in DOMAIN books : books[k] = obs[r].books[k]
            /\ nextID = obs[r].nextID
            /\ pc[r] # "UpdateStore"
            /\ (AfterStore(r) \/ pc[r] = "respond") => (~op[r].ok /\ op[r].book = ZeroBook)
            /\ (Done(r) /\ obs[r].atCheck = "nil") =>
                  /\ resp[r].status = 404
                  /\ resp[r].body =
                        <<[NoPayload EXCEPT !.kind = "error", !.msg = "book not found"]>>

\* PUT /api/books/99 with an accepted draft was answered 404; the store is as
\* it was.
C11_Witness ==
    \E r \in Clients :
        /\ Done(r) /\ op[r].name = "Update" /\ op[r].id = <<"9", "9">>
        /\ obs[r].atCheck = "nil"
        /\ resp[r].status = 404
        /\ books = obs[r].books

\* C12: Update on an id that is in the store puts the supplied title, author,
\* isbn and publishedYear under that id, with the id it was addressed by
\* whatever id the supplied book carried, returns that book with found = true,
\* and changes nothing else: the set of ids, every other book and the next-id
\* counter are as before, at every statement of the call.
C12_UpdateReplacesFieldsKeepsId ==
    [][\A r \in Clients :
          op[r].name = "Update" =>
              IF pc[r] = "UpdateStore"
              THEN /\ op[r].id \in DOMAIN books
                   /\ DOMAIN books' = DOMAIN books
                   /\ books'[op[r].id].ID = op[r].id
                   /\ books'[op[r].id].Title = op[r].book.Title
                   /\ books'[op[r].id].Author = op[r].book.Author
                   /\ books'[op[r].id].ISBN = op[r].book.ISBN
                   /\ books'[op[r].id].PublishedYear = op[r].book.PublishedYear
                   /\ \A k \in DOMAIN books \ {op[r].id} : books'[k] = books[k]
                   /\ nextID' = nextID
                   /\ op'[r].ok
                   /\ op'[r].book = books'[op[r].id]
              ELSE /\ books' = books
                   /\ nextID' = nextID
                   /\ (pc[r] = "UpdateCheck" /\ op[r].id \in DOMAIN books) =>
                         pc'[r] = "UpdateStore"
      ]_vars

\* Update of 2 with a book carrying the id 7, in a store holding both: 2 has
\* the supplied fields and its own id, 7 is still the seeded book.
C12_Witness ==
    /\ \E i \in 2..Len(oplog) :
          /\ oplog[i].name = "Update" /\ oplog[i].id = <<"2">> /\ oplog[i].ok
          /\ oplog[i].book.ID = <<"2">>
    /\ <<"2">> \in DOMAIN books /\ <<"7">> \in DOMAIN books
    /\ books[<<"2">>] = [Draft("Go Workshop") EXCEPT !.ID = <<"2">>]
    /\ books[<<"7">>] = SmallBook(<<"7">>)

\* C13: Delete of an id that is in the store removes that entry and no other
\* and returns true; Delete of an id that is not in the store returns false
\* and leaves the map as it was; no statement of Delete changes the next-id
\* counter; and of two Deletes of one id, one right after the other, the
\* second returns false (so a first that returned true is followed by false).
C13_DeleteRemovesExactlyOnce ==
    /\ [](\A r \in Clients :
            /\ (op[r].name = "Delete" /\ pc[r] = "Unlock") =>
                  IF op[r].id \in DOMAIN committed
                  THEN /\ op[r].ok
                       /\ DOMAIN books = DOMAIN committed \ {op[r].id}
                       /\ \A k \in DOMAIN books : books[k] = committed[k]
                  ELSE /\ ~op[r].ok
                       /\ books = committed
            /\ (op[r].name = "Delete" /\ pc[r] = "returned") => op[r].id \notin DOMAIN books)
    /\ [](\A i \in 2..Len(oplog) : \A j \in 2..Len(oplog) :
            (j = i + 1 /\ oplog[i].name = "Delete" /\ oplog[j].name = "Delete"
                /\ oplog[i].id = oplog[j].id) => ~oplog[j].ok)
    /\ [][\A r \in Clients :
            op[r].name = "Delete" =>
                /\ nextID' = nextID
                /\ pc[r] # "DeleteRemove" => books' = books
        ]_vars

\* Two Deletes of 2 in a row from the seed of main: true, then false.
C13_Witness ==
    \E i \in 2..Len(oplog) : \E j \in 2..Len(oplog) :
        /\ j = i + 1
        /\ oplog[1].list = SeedData
        /\ oplog[i].name = "Delete" /\ oplog[i].id = <<"2">> /\ oplog[i].ok
        /\ oplog[j].name = "Delete" /\ oplog[j].id = <<"2">> /\ ~oplog[j].ok
        /\ <<"2">> \notin DOMAIN books

\* The request reached createBook or updateBook.
IsWrite(r) ==
    \E i \in 1..Len(calls[r]) : calls[r][i] \in {"createBook", "updateBook"}

\* The text is empty or white space only.
Blank(text) == \A i \in 1..Len(text) : text[i] \in {" ", "\t", "\n", "\r"}

\* The status a draft is rejected with, 0 for a draft that is not rejected.
Rejection(q) ==
    IF q.contentType = <<>> \/ q.contentType[1] # "application/json" THEN 415
    ELSE IF q.body.kind # "json" THEN 400
    ELSE IF Blank(q.body.Title) \/ Blank(q.body.Author) THEN 400
    ELSE 0

\* C14: a create or update whose draft is rejected (415 for a content type
\* that does not start with application/json, else 400 for malformed JSON or a
\* title or author that is blank after trimming) is answered with that status
\* and an error body and calls no repository method: map and next-id counter
\* stay as they were when the request arrived; every other draft is accepted,
\* that is, handed to Create or Update with its title and author trimmed.
C14_RejectedDraftNeverReachesStore ==
    \A r \in Clients :
        IsWrite(r) =>
            IF Rejection(req[r]) # 0
            THEN /\ op[r] = NoOp
                 /\ obs[r].atCall = "none"
                 /\ books = obs[r].books
                 /\ nextID = obs[r].nextID
                 /\ resp[r].status = Rejection(req[r])
                 /\ Len(resp[r].body) = 1
                 /\ resp[r].body[1].kind = "error"
            ELSE /\ op[r].name = (IF req[r].method = "POST" THEN "Create" ELSE "Update")
                 /\ obs[r].atCall # "none"
                 /\ pc[r] \in {"Create", "Update"} =>
                       op[r].book = Book(<<>>, <<"Go Workshop">>, <<"Jane Doe">>,
                                         <<"9780000000000">>, 2024)

\* POST /api/books with the draft {title: "", author: "X"}: 400, nothing
\* created, counter unchanged.
C14_Witness ==
    \E r \in Clients :
        /\ Done(r) /\ req[r].method = "POST"
        /\ req[r].body = JSONBody(<<>>, <<"X">>)
        /\ resp[r].status = 400
        /\ resp[r].body = <<[NoPayload EXCEPT !.kind = "error",
                                           !.msg = "title and author are required"]>>
        /\ books = obs[r].books /\ nextID = obs[r].nextID

ErrorBody(msg) == <<[NoPayload EXCEPT !.kind = "error", !.msg = msg]>>

\* C15: contextDone on a context whose error is DeadlineExceeded writes 504
\* "request timed out" and returns true; on a context that is canceled, or
\* done with any other error, it writes 408 "request canceled" and returns
\* true (the handler writes nothing after it); on a context that is not done
\* it returns false and has written nothing when the handler goes on.
C15_ContextDoneClassifies ==
    /\ \A e \in {"Canceled", "some other error"} :
          contextDone(e) = [done |-> TRUE, status |-> 408, msg |-> "request canceled"]
    /\ \A r \in Clients :
          /\ obs[r].atCheck = "DeadlineExceeded" =>
                /\ resp[r].status = 504 /\ resp[r].headerCalls = 1
                /\ resp[r].body = ErrorBody("request timed out")
                /\ pc[r] # "respond" /\ obs[r].atWrite = "none"
          /\ obs[r].atCheck = "Canceled" =>
                /\ resp[r].status = 408 /\ resp[r].headerCalls = 1
                /\ resp[r].body = ErrorBody("request canceled")
                /\ pc[r] # "respond" /\ obs[r].atWrite = "none"
          /\ obs[r].atCheck = "nil" =>
                /\ resp[r].status \notin {504, 408}
                /\ pc[r] = "respond" =>
                      resp[r].status = 0 /\ resp[r].headerCalls = 0 /\ resp[r].body = <<>>

\* A list whose client went away while the store was at work: 408.
C15_Witness ==
    \E r \in Clients :
        /\ Done(r) /\ op[r].name = "List"
        /\ obs[r].atCall = "nil" /\ obs[r].atCheck = "Canceled"
        /\ resp[r].status = 408
        /\ resp[r].body = ErrorBody("request canceled")

\* C16: a request is answered by one response write: WriteHeader is called
\* at most once and at most one body is written while it is served, a 204
\* carries no body, and when the request is done a status has been sent, by
\* WriteHeader or by the first Write; no second body follows an error body.
C16_ExactlyOneResponse ==
    \A r \in Clients :
        /\ resp[r].headerCalls <= 1
        /\ Len(resp[r].body) <= 1
        /\ resp[r].status = 204 => resp[r].body = <<>>
        /\ Done(r) =>
              /\ resp[r].status # 0
              /\ resp[r].headerCalls = 1 \/ Len(resp[r].body) = 1
              /\ resp[r].status # 204 => Len(resp[r].body) = 1

\* A create that succeeded in the store after the deadline had passed: one
\* status, one body, the timeout error, and no book after it.
C16_Witness ==
    \E r \in Clients :
        /\ Done(r) /\ op[r].name = "Create"
        /\ obs[r].atCheck = "DeadlineExceeded"
        /\ resp[r].headerCalls = 1
        /\ resp[r].body = ErrorBody("request timed out")

\* The statements of a repository method, from its call to its return.
StorePCs == {"List", "Get", "Create", "Update", "Delete", "LockWait"} \cup ReadCS \cup WriteCS \cup {"returned"}

\* C17: chain(h, a, b, c) is a(b(c(h))); a request that is no preflight
\* passes timeoutMiddleware, then loggingMiddleware, then corsMiddleware, then
\* the mux and its route handler, and whenever a repository method runs for
\* it, the request's context carries the deadline set by timeoutMiddleware.
C17_DecoratorsInDeclaredOrder ==
    /\ chain(<<"h">>, <<"a", "b", "c">>) = <<"a", "b", "c", "h">>
    /\ \A r \in Clients :
          (req[r] # NoReq /\ req[r].method # "OPTIONS") =>
              /\ \A i \in 1..Len(calls[r]) :
                    i <= 4 => calls[r][i] = <<"timeoutMiddleware", "loggingMiddleware",
                                               "corsMiddleware", "mux">>[i]
              /\ Done(r) => Len(calls[r]) >= 4
              /\ op[r].name # "none" => Len(calls[r]) >= 6
              /\ pc[r] \in StorePCs =>
                    /\ obs[r].atCall # "none"
                    /\ ctx[r].deadline
                    /\ stack[r] = <<"timeoutMiddleware", "loggingMiddleware">>

\* A PUT went through the three decorators, the mux, bookHandler and
\* updateBook, and Update ran with a context carrying the deadline.
C17_Witness ==
    \E r \in Clients :
        /\ req[r].method = "PUT" /\ pc[r] = "UpdateStore"
        /\ SubSeq(calls[r], 1, 6) = <<"timeoutMiddleware", "loggingMiddleware", "corsMiddleware",
                                       "mux", "bookHandler", "updateBook">>
        /\ ctx[r].deadline

\* The status the client receives: the one written, or 200 when the handler
\* returned without writing any.
Delivered(w) == IF w.status = 0 THEN 200 ELSE w.status

\* The request has passed the logging decorator's log.Printf.
Logged(r) ==
    /\ pc[r] \in {"timeoutReturn", "done"}
    /\ \E i \in 1..Len(calls[r]) : calls[r][i] = "loggingMiddleware"

\* C18: the status loggingMiddleware logs is the status delivered to the
\* client, whichever layer wrote it (CORS, the mux, a handler, contextDone;
\* 200 when a body was written without a status), and the byte count it logs
\* is the number of body bytes written; while the request is served the
\* recorder agrees with the client's writer.
C18_LoggedStatusIsDelivered ==
    \A r \in Clients :
        /\ Recorded(r) =>
              /\ rr[r].status = resp[r].status
              /\ rr[r].size = resp[r].bytes
        /\ Logged(r) =>
              /\ rr[r].logged = Delivered(resp[r])
              /\ rr[r].loggedSize = resp[r].bytes
              /\ resp[r].body = <<>> => rr[r].loggedSize = 0

\* GET /health: the handler wrote a body and no status; 200 was delivered
\* and logged, with the bytes of the body.
C18_Witness ==
    \E r \in Clients :
        /\ Done(r) /\ req[r].path = <<"/health">> /\ req[r].method = "GET"
        /\ resp[r].headerCalls = 0 /\ resp[r].status = 200
        /\ rr[r].logged = 200
        /\ rr[r].loggedSize = resp[r].bytes /\ resp[r].bytes > 0

StoreMethods == {"List", "Get", "Create", "Update", "Delete"}

\* The positions in the request's history at which a repository method was called.
StoreCalls(r) == {i \in 1..Len(calls[r]) : calls[r][i] \in StoreMethods}

\* C19: while a request is served at most one repository method is called
\* for it, once, whatever the outcome (timeout, cancellation, not found,
\* success); the counter moves by at most one, and the response is written at
\* most once.
C19_AtMostOneAttempt ==
    \A r \in Clients :
        /\ Cardinality(StoreCalls(r)) <= 1
        /\ op[r].name # "none" <=> Cardinality(StoreCalls(r)) = 1
        /\ \A i \in StoreCalls(r) : calls[r][i] = op[r].name /\ i = Len(calls[r])
        /\ req[r] # NoReq =>
              /\ nextID \in {obs[r].nextID, obs[r].nextID + 1}
              /\ nextID # obs[r].nextID => op[r].name = "Create"
        /\ resp[r].headerCalls <= 1

\* A get whose deadline passed while the store was at work: answered 504
\* after one call of Get.
C19_Witness ==
    \E r \in Clients :
        /\ Done(r) /\ op[r].name = "Get"
        /\ obs[r].atCheck = "DeadlineExceeded"
        /\ resp[r].status = 504
        /\ Cardinality(StoreCalls(r)) = 1

\* The messages the error statuses are sent with.
ErrorMessages(status) ==
    CASE status = 404 -> {"book not found"}
      [] status = 400 -> {"invalid JSON payload", "title and author are required",
                          "invalid request body"}
      [] status = 415 -> {"content type must be application/json"}
      [] status = 504 -> {"request timed out"}
      [] status = 408 -> {"request canceled"}
      [] status = 405 -> {"method not allowed"}
      [] status = 500 -> {"failed to list books", "failed to fetch book", "failed to create book",
                          "failed to update book", "failed to delete book"}
      [] OTHER -> {}

\* C20: every response with an error status (400 or above) has one of the
\* statuses 404, 400, 415, 504, 408, 500, 405 and as its body exactly one
\* JSON object {"error": message} with a message of that status, sent as
\* application/json; no other response carries an error object.
C20_ErrorsCarryUniformBody ==
    \A r \in Clients :
        Done(r) =>
            IF resp[r].status >= 400
            THEN /\ Len(resp[r].body) = 1
                 /\ resp[r].body[1].kind = "error"
                 /\ resp[r].body[1].msg \in ErrorMessages(resp[r].status)
                 /\ resp[r].contentType = "application/json"
            ELSE \A i \in 1..Len(resp[r].body) : resp[r].body[i].kind # "error"

\* C21: no method of the in-memory repository returns an error, whatever
\* the requests being served at the same time, and no request is answered
\* with the Internal error, 500.
C21_NoInternalError ==
    \A r \in Clients :
        /\ op[r].err = "nil"
        /\ resp[r].status # 500
        /\ rr[r].status # 500 /\ rr[r].logged # 500

\* Two requests were served at the same time, a get that found nothing while
\* a delete or update was waiting for the lock: both answered, neither with 500.
C21_Witness ==
    \E r \in Clients : \E q \in Clients \ {r} :
        /\ Done(r) /\ op[r].name = "Get" /\ ~op[r].ok /\ resp[r].status = 404
        /\ Done(q) /\ op[q].name \in {"Update", "Delete"} /\ op[q].ok
        /\ resp[q].status \in {200, 204}

\* C22: every stored book has an id that is not empty and is the key it is
\* stored under, so no two stored books share an id; and no step changes the
\* id of a book that stays in the store (from the step that creates it to the
\* step that deletes it).
C22_StoredIdsNonEmptyUniqueImmutable ==
    /\ [](\A k \in DOMAIN books : k # <<>> /\ books[k].ID = k)
    /\ [](\A j \in DOMAIN books : \A k \in DOMAIN books :
            j # k => books[j].ID # books[k].ID)
    /\ [][\A k \in DOMAIN books \cap DOMAIN books' : books'[k].ID = books[k].ID]_vars

\* From the seed of main: a book was created, and the book 2 was updated
\* with a book carrying the id 7, which is no key: 2 is still 2.
C22_Witness ==
    /\ oplog[1].list = SeedData
    /\ \E i \in 2..Len(oplog) : oplog[i].name = "Create"
    /\ \E i \in 2..Len(oplog) :
          oplog[i].name = "Update" /\ oplog[i].id = <<"2">> /\ oplog[i].ok
    /\ <<"2">> \in DOMAIN books /\ books[<<"2">>].ID = <<"2">>
    /\ <<"7">> \notin DOMAIN books

\* The positions <<i, j>> at which path p, starting with a slash, holds its
\* one segment: slashes before i, no slash from i to j, slashes after j.
Segments(p) ==
    {x \in (2..Len(p)) \X (2..Len(p)) :
        /\ p[1] = "/"
        /\ x[1] <= x[2]
        /\ \A k \in 2..Len(p) : (p[k] = "/") <=> (k < x[1] \/ k > x[2])}

\* C23: extractID returns an id, and no error, exactly for a path that
\* starts with a slash and holds, between leading and trailing slashes, one
\* non-empty run without a slash, and the id is that run; for every other
\* path it returns an error and no id.  bookHandler, for a path whose rest
\* after /api/books is refused, answers 404 "book not found" and calls no
\* repository method; for any other it hands the id to getBook, updateBook or
\* deleteBook.
C23_ExtractIDOneSegment ==
    \A r \in Clients :
        /\ op[r].name = "extractID" =>
              /\ op[r].ok <=> Segments(req[r].path) # {}
              /\ \A x \in Segments(req[r].path) :
                    op[r].id = SubSeq(req[r].path, x[1], x[2])
              /\ ~op[r].ok => op[r].id = <<>>
        /\ (\E i \in 1..Len(calls[r]) : calls[r][i] = "bookHandler") =>
              IF Segments(Tail(req[r].path)) = {}
              THEN /\ op[r] = NoOp
                   /\ obs[r].atCall = "none"
                   /\ resp[r].status = 404
                   /\ resp[r].body = ErrorBody("book not found")
                   /\ books = obs[r].books /\ nextID = obs[r].nextID
              ELSE op[r].name # "none" =>
                      \A x \in Segments(Tail(req[r].path)) :
                          op[r].id = SubSeq(Tail(req[r].path), x[1], x[2])

\* extractID("//2/") returned the id 2.
C23_Witness ==
    \E r \in Clients :
        /\ op[r].name = "extractID"
        /\ req[r].path = <<"/", "/", "2", "/">>
        /\ op[r].ok /\ op[r].id = <<"2">>

\* C24: srv.Shutdown is called at most once, only after SIGINT or SIGTERM
\* was received, with a drain deadline of five seconds; srv.Close is called at
\* most once, only after that Shutdown has returned and only when it returned
\* an error: never before Shutdown, never while it runs, never after it
\* returned nil.
C24_ShutdownThenCloseOnError ==
    /\ srv.shutdownCalls <= 1
    /\ srv.closeCalls <= 1
    /\ srv.shutdownCalls = 1 =>
          /\ srv.signal \in {"SIGINT", "SIGTERM"}
          /\ srv.drain = 5
    /\ srv.shutdownCalls = 0 => (srv.phase = "waitSignal" /\ srv.accepting)
    /\ srv.closeCalls = 1 =>
          /\ srv.shutdownCalls = 1
          /\ srv.phase = "exited"
          /\ srv.shutdownErr \in {"listener close error", "DeadlineExceeded"}
    /\ srv.shutdownErr = "nil" => srv.closeCalls = 0
    /\ srv.phase \in {"waitSignal", "Shutdown", "shutdownReturned"} => srv.closeCalls = 0

\* After SIGTERM the drain deadline passed with a request in flight:
\* Shutdown returned the error and Close was called.
C24_Witness ==
    /\ srv.signal = "SIGTERM"
    /\ srv.shutdownCalls = 1 /\ srv.shutdownErr = "DeadlineExceeded"
    /\ srv.closeCalls = 1
    /\ \E r \in Clients : InFlight(r)

\* Entry j of the caller's history wrote the book id: the construction put
\* it from the seed, Create stored its book under it, Update replaced it,
\* Delete removed it.
WroteID(j, id) ==
    \/ j = 1 /\ \E k \in 1..Len(oplog[1].list) : oplog[1].list[k].ID = id
    \/ oplog[j].name = "Create" /\ oplog[j].book.ID = id
    \/ oplog[j].name \in {"Update", "Delete"} /\ oplog[j].id = id /\ oplog[j].ok

\* What entry j, a write of id, left under id: the last seed item with that
\* id, the book Create or Update returned, nothing after Delete.
LeftBy(j, id) ==
    CASE j = 1 ->
            LET ks == {k \in 1..Len(oplog[1].list) : oplog[1].list[k].ID = id}
                last == CHOOSE k \in ks : \A m \in ks : m <= k
            IN  [ok |-> TRUE, book |-> oplog[1].list[last]]
      [] oplog[j].name \in {"Create", "Update"} -> [ok |-> TRUE, book |-> oplog[j].book]
      [] OTHER -> [ok |-> FALSE, book |-> ZeroBook]

\* What the writes completed before entry i left under id.
LatestWrite(i, id) ==
    LET ws == {j \in 1..(i - 1) : WroteID(j, id)}
    IN  IF ws = {} THEN [ok |-> FALSE, book |-> ZeroBook]
        ELSE LeftBy(CHOOSE j \in ws : \A m \in ws : m <= j, id)

\* C25: Get returns what the latest completed write of that id left: the
\* seeded book, the book Create or Update returned, or not found after a
\* Delete or with no write at all. In particular the book Create returned
\* is what Get of its id returns while no Update or Delete of it succeeded.
C25_GetReflectsLatestWrite ==
    /\ \A i \in 2..Len(oplog) :
          oplog[i].name = "Get" =>
              /\ oplog[i].ok = LatestWrite(i, oplog[i].id).ok
              /\ oplog[i].book = LatestWrite(i, oplog[i].id).book
    /\ \A i \in 2..Len(oplog) : \A j \in 2..Len(oplog) :
          (/\ i < j
           /\ oplog[i].name = "Create"
           /\ oplog[j].name = "Get" /\ oplog[j].id = oplog[i].book.ID
           /\ \A m \in (i + 1)..(j - 1) :
                 ~(oplog[m].name \in {"Update", "Delete"} /\ oplog[m].id = oplog[i].book.ID
                     /\ oplog[m].ok))
          => oplog[j].ok /\ oplog[j].book = oplog[i].book

\* From the seed of main: Create returned the book 5 and Get of 5 found it;
\* then 5 was deleted and Get of 5 found nothing.
C25_Witness ==
    /\ oplog[1].list = SeedData
    /\ Len(oplog) = 5
    /\ oplog[2].name = "Create" /\ oplog[2].book.ID = <<"5">>
    /\ oplog[3].name = "Get" /\ oplog[3].id = <<"5">> /\ oplog[3].ok
    /\ oplog[3].book = oplog[2].book
    /\ oplog[4].name = "Delete" /\ oplog[4].id = <<"5">> /\ oplog[4].ok
    /\ oplog[5].name = "Get" /\ oplog[5].id = <<"5">> /\ ~oplog[5].ok

\* C26: under fair scheduling every request received is answered, whatever
\* list, get, create, update and delete requests are served together; and a
\* goroutine that is not serving a request holds no lock and waits for
\* none, so every lock taken on the way was released.
C26_EveryRequestResponds ==
    /\ \A r \in 1..NumClients : InFlight(r) ~> (pc[r] = "done" /\ resp[r].status # 0)
    /\ [](\A r \in Clients :
            ~InFlight(r) => (mu.w # r /\ r \notin mu.readers /\ mu.pending # r))

\* A PUT or DELETE or POST is blocked in Lock, announced, while a GET of
\* another goroutine is inside List or Get.
C26_Witness ==
    \E r \in Clients : \E q \in Clients \ {r} :
        /\ pc[r] = "LockWait" /\ mu.pending = r
        /\ InRead(q) /\ q \in mu.readers
        /\ req[r].method \in {"POST", "PUT", "DELETE"} /\ req[q].method = "GET"

\* The request's handler has returned.
HandlerReturned(r) == pc[r] \in {"loggingReturn", "timeoutReturn", "done"}

\* C27: the order of the checks of a handler.  A create or update with a
\* rejected draft is answered 415 or 400 before any repository call and
\* before any look at the token, whatever the token's state then and whether
\* or not the id is stored.  After Get, Update or Delete returned, the token
\* is looked at before the outcome: a token that is expired or canceled then
\* gives 504 or 408 also for an id that is not stored, and 404 is answered
\* only under a live token.
C27_ChecksInOrder ==
    \A r \in Clients :
        /\ (IsWrite(r) /\ Rejection(req[r]) # 0) =>
              /\ resp[r].status = Rejection(req[r])
              /\ obs[r].atAnswer \in {"nil", "Canceled", "DeadlineExceeded"}
              /\ obs[r].atCall = "none" /\ obs[r].atCheck = "none"
              /\ op[r] = NoOp
        /\ obs[r].atCheck # "none" => obs[r].atCall # "none"
        /\ (HandlerReturned(r) /\ op[r].name \in {"Get", "Update", "Delete"}) =>
              /\ obs[r].atCheck \in {"nil", "Canceled", "DeadlineExceeded"}
              /\ obs[r].atCheck = "DeadlineExceeded" => resp[r].status = 504
              /\ obs[r].atCheck = "Canceled" => resp[r].status = 408
              /\ obs[r].atCheck = "nil" =>
                    resp[r].status = (IF ~op[r].ok THEN 404
                                      ELSE IF op[r].name = "Delete" THEN 204 ELSE 200)

\* PUT /api/books/99, an id that is not stored, with an empty title, while
\* the client has already gone away: 400, the store is not called.
C27_Witness ==
    \E r \in Clients :
        /\ Done(r) /\ req[r].method = "PUT"
        /\ req[r].path = <<"/api/books", "/", "9", "9">>
        /\ req[r].body = JSONBody(<<>>, <<"X">>)
        /\ <<"9", "9">> \notin DOMAIN books
        /\ obs[r].atAnswer = "Canceled"
        /\ resp[r].status = 400
        /\ calls[r][Len(calls[r])] = "updateBook"

=============================================================================
